---- MODULE Spec2Model ----
(***************************************************************************)
(* A model of the video downloader: PlatformDetector (platform_detector.py) *)
(* and VideoDownloader (downloader.py).  Strings the code inspects          *)
(* character by character (URLs, the download type) are sequences of        *)
(* one-character strings.  The extraction engine (yt_dlp) and the file     *)
(* system are the environment: every outcome they can produce is a choice.  *)
(***************************************************************************)
EXTENDS Integers, Sequences, FiniteSets, TLC

\* Optional values: None is the empty tuple, Some(x) the one-element tuple.
None == <<>>
Some(x) == <<x>>
IsNone(o) == Len(o) = 0
IsSome(o) == Len(o) = 1
Get(o) == o[1]

----------------------------------------------------------------------------
\* Strings as character sequences

UPPER == <<"A","B","C","D","E","F","G","H","I","J","K","L","M",
           "N","O","P","Q","R","S","T","U","V","W","X","Y","Z">>
LOWER == <<"a","b","c","d","e","f","g","h","i","j","k","l","m",
           "n","o","p","q","r","s","t","u","v","w","x","y","z">>
DIGITS == <<"0","1","2","3","4","5","6","7","8","9">>

LowerChar(c) ==
    IF \E i \in 1..Len(UPPER) : UPPER[i] = c
    THEN LOWER[CHOOSE i \in 1..Len(UPPER) : UPPER[i] = c]
    ELSE c

\* str.lower()
Lower(s) == [i \in 1..Len(s) |-> LowerChar(s[i])]

IsDigit(c) == \E i \in 1..Len(DIGITS) : DIGITS[i] = c

\* the literal lit occurs in s at position i
LitAt(lit, s, i) ==
    /\ i >= 1
    /\ i + Len(lit) - 1 <= Len(s)
    /\ \A k \in 1..Len(lit) : s[i + k - 1] = lit[k]

----------------------------------------------------------------------------
\* Regular expressions of PLATFORM_PATTERNS.  A pattern is a sequence of
\* alternatives (a|b); an alternative is literals joined by ".*?" and an
\* optional trailing "\d+".  "." does not match a line break.

Alt(lits, digits) == [lits |-> lits, digits |-> digits]

GapOk(s, from, to) == \A k \in from..to : s[k] # "\n"

RECURSIVE AltMatchFrom(_, _, _, _)
\* literals k..Len(lits) of alternative a match s, literal k starting at i
AltMatchFrom(a, s, k, i) ==
    /\ LitAt(a.lits[k], s, i)
    /\ LET j == i + Len(a.lits[k]) IN
       IF k = Len(a.lits)
       THEN (a.digits => (j <= Len(s) /\ IsDigit(s[j])))
       ELSE \E n \in j..(Len(s) + 1) :
                /\ GapOk(s, j, n - 1)
                /\ AltMatchFrom(a, s, k + 1, n)

\* re.search(pattern, s)
re_search(pattern, s) ==
    \E x \in 1..Len(pattern) :
        \E i \in 1..(Len(s) + 1) : AltMatchFrom(pattern[x], s, 1, i)

youtube_com == <<"y","o","u","t","u","b","e",".","c","o","m">>
youtu_be == <<"y","o","u","t","u",".","b","e">>
facebook_com == <<"f","a","c","e","b","o","o","k",".","c","o","m">>
fb_watch == <<"f","b",".","w","a","t","c","h">>
twitter_com == <<"t","w","i","t","t","e","r",".","c","o","m">>
x_com == <<"x",".","c","o","m">>
instagram_com == <<"i","n","s","t","a","g","r","a","m",".","c","o","m">>
tiktok_com == <<"t","i","k","t","o","k",".","c","o","m">>
vimeo_com == <<"v","i","m","e","o",".","c","o","m">>
twitch_tv == <<"t","w","i","t","c","h",".","t","v">>
dailymotion_com == <<"d","a","i","l","y","m","o","t","i","o","n",".","c","o","m">>

Lit1(l) == << Alt(<<l>>, FALSE) >>
Lit2(l, m) == << Alt(<<l, m>>, FALSE) >>

PLATFORM_PATTERNS == <<
    [platform |-> "YouTube", patterns |-> <<
        << Alt(<<youtube_com>>, FALSE), Alt(<<youtu_be>>, FALSE) >>,
        Lit1(youtube_com \o <<"/","w","a","t","c","h","?","v","=">>),
        Lit1(youtu_be \o <<"/">>),
        Lit1(youtube_com \o <<"/","e","m","b","e","d","/">>),
        Lit1(youtube_com \o <<"/","v","/">>) >>],
    [platform |-> "Facebook", patterns |-> <<
        Lit1(facebook_com),
        Lit1(fb_watch),
        Lit1(facebook_com \o <<"/","w","a","t","c","h">>),
        Lit2(facebook_com \o <<"/">>, <<"/","v","i","d","e","o","s">>) >>],
    [platform |-> "Twitter/X", patterns |-> <<
        Lit1(twitter_com),
        Lit1(x_com),
        Lit2(twitter_com \o <<"/">>, <<"/","s","t","a","t","u","s">>),
        Lit2(x_com \o <<"/">>, <<"/","s","t","a","t","u","s">>) >>],
    [platform |-> "Instagram", patterns |-> <<
        Lit1(instagram_com),
        Lit1(instagram_com \o <<"/","p","/">>),
        Lit1(instagram_com \o <<"/","r","e","e","l","/">>),
        Lit1(instagram_com \o <<"/","t","v","/">>) >>],
    [platform |-> "TikTok", patterns |-> <<
        Lit1(tiktok_com),
        Lit2(tiktok_com \o <<"/","@">>, <<"/","v","i","d","e","o">>) >>],
    [platform |-> "Vimeo", patterns |-> <<
        Lit1(vimeo_com),
        << Alt(<<vimeo_com \o <<"/">> >>, TRUE) >> >>],
    [platform |-> "Twitch", patterns |-> <<
        Lit1(twitch_tv),
        Lit1(twitch_tv \o <<"/","v","i","d","e","o","s">>),
        Lit2(twitch_tv \o <<"/">>, <<"/","c","l","i","p">>) >>],
    [platform |-> "Dailymotion", patterns |-> <<
        Lit1(dailymotion_com),
        Lit1(dailymotion_com \o <<"/","v","i","d","e","o">>) >>]
>>

PlatformMatches(p, url) ==
    \E k \in 1..Len(PLATFORM_PATTERNS[p].patterns) :
        re_search(PLATFORM_PATTERNS[p].patterns[k], url)

\* fault: the URL is matched as passed, not lower-cased
detect_platform_nolower(url) ==
    LET hits == {p \in 1..Len(PLATFORM_PATTERNS) : PlatformMatches(p, url)}
    IN  IF hits = {} THEN None
        ELSE Some(PLATFORM_PATTERNS[CHOOSE p \in hits : \A q \in hits : p <= q].platform)

\* PlatformDetector.detect_platform: the first platform of the table with a
\* pattern matching the lower-cased URL, or None.
detect_platform(url) ==
    LET u == Lower(url)
        hits == {p \in 1..Len(PLATFORM_PATTERNS) : PlatformMatches(p, u)}
    IN  IF hits = {} THEN None
        ELSE Some(PLATFORM_PATTERNS[CHOOSE p \in hits : \A q \in hits : p <= q].platform)

\* PlatformDetector.get_supported_platforms
get_supported_platforms ==
    [p \in 1..Len(PLATFORM_PATTERNS) |-> PLATFORM_PATTERNS[p].platform]

----------------------------------------------------------------------------
\* Formatting helpers of VideoDownloader

RECURSIVE DecimalDigits(_)
\* the decimal digits of n >= 0, most significant first
DecimalDigits(n) ==
    IF n < 10 THEN <<DIGITS[n + 1]>>
    ELSE DecimalDigits(n \div 10) \o <<DIGITS[(n % 10) + 1]>>

\* fault: f"{n:d}", no padding
Format02d_nopad(n) ==
    IF n < 0 THEN <<"-">> \o DecimalDigits(0 - n) ELSE DecimalDigits(n)

\* f"{n:02d}"
Format02d(n) ==
    IF n < 0 THEN <<"-">> \o DecimalDigits(0 - n)
    ELSE IF n < 10 THEN <<"0">> \o DecimalDigits(n)
    ELSE DecimalDigits(n)

\* A duration as the engine reports it: absent, a number of seconds, or a
\* value that is no number.
NoDuration == [tag |-> "none", val |-> 0]
NumDuration(n) == [tag |-> "num", val |-> n]
BadDuration == [tag |-> "str", val |-> 0]

\* fault: "if not duration" in place of "if duration is None" (0 reads as absent)
_format_duration_falsy(duration) ==
    IF duration.tag = "none" \/ duration.val = 0 THEN None
    ELSE LET d == duration.val
             hours == d \div 3600
             minutes == (d % 3600) \div 60
             seconds == d % 60
         IN  IF hours > 0
             THEN Some(Format02d(hours) \o <<":">> \o Format02d(minutes)
                       \o <<":">> \o Format02d(seconds))
             ELSE Some(Format02d(minutes) \o <<":">> \o Format02d(seconds))

\* VideoDownloader._format_duration, for None and numbers
_format_duration(duration) ==
    IF duration.tag = "none" THEN None
    ELSE LET d == duration.val
             hours == d \div 3600
             minutes == (d % 3600) \div 60
             seconds == d % 60
         IN  IF hours > 0
             THEN Some(Format02d(hours) \o <<":">> \o Format02d(minutes)
                       \o <<":">> \o Format02d(seconds))
             ELSE Some(Format02d(minutes) \o <<":">> \o Format02d(seconds))

UNITS == << <<"B">>, <<"K","B">>, <<"M","B">>, <<"G","B">> >>

RECURSIVE Bytes(_)
\* A byte count is held as its base-1024 digits, most significant first:
\* Python's int is unbounded and a float holds every count below 2^53 and
\* its quotients by 1024 exactly, which the integers of the checker do not.
Bytes(n) == IF n < 1024 THEN <<n>> ELSE Bytes(n \div 1024) \o <<n % 1024>>

\* f"{x:.1f}" for x = n / 1024^f, n in base-1024 digits: one decimal, the
\* exact value rounded to the nearest tenth, a tie to the even one
Format1f(n, f) ==
    LET RECURSIVE Value(_)
        Value(ds) == IF ds = <<>> THEN 0
                     ELSE 1024 * Value(SubSeq(ds, 1, Len(ds) - 1)) + ds[Len(ds)]
        RECURSIVE Times10(_)
        Times10(ds) ==
            IF ds = <<>> THEN [d |-> <<>>, c |-> 0]
            ELSE LET r == Times10(Tail(ds))
                     v == 10 * Head(ds) + r.c
                 IN  [d |-> <<v % 1024>> \o r.d, c |-> v \div 1024]
        frac == Times10(SubSeq(n, Len(n) - f + 1, Len(n)))
        q == 10 * Value(SubSeq(n, 1, Len(n) - f)) + frac.c
        rest == {k \in 2..Len(frac.d) : frac.d[k] # 0}
        up == /\ frac.d # <<>>
              /\ \/ frac.d[1] > 512
                 \/ frac.d[1] = 512 /\ (rest # {} \/ q % 2 = 1)
        t == IF up THEN q + 1 ELSE q
    IN  DecimalDigits(t \div 10) \o <<".">> \o DecimalDigits(t % 10)

RECURSIVE FormatSizeFrom_le(_, _)
\* fault: "size_bytes <= 1024.0" in place of "<"
FormatSizeFrom_le(n, k) ==
    IF k > Len(UNITS)
    THEN Format1f(n, k - 1) \o <<" ","T","B">>
    ELSE IF \/ Len(n) - (k - 1) <= 1
            \/ /\ Len(n) - (k - 1) = 2
               /\ n[1] = 1
               /\ \A j \in 2..Len(n) : n[j] = 0
         THEN Format1f(n, k - 1) \o <<" ">> \o UNITS[k]
         ELSE FormatSizeFrom_le(n, k + 1)

RECURSIVE FormatSizeFrom(_, _)
\* the loop of _format_file_size entered at unit k with the value
\* n / 1024^(k-1); it is below 1024.0 when its integer part has one digit
FormatSizeFrom(n, k) ==
    IF k > Len(UNITS)
    THEN Format1f(n, k - 1) \o <<" ","T","B">>
    ELSE IF Len(n) - (k - 1) <= 1
         THEN Format1f(n, k - 1) \o <<" ">> \o UNITS[k]
         ELSE FormatSizeFrom(n, k + 1)

\* VideoDownloader._format_file_size: size_bytes is None or Some(byte count)
_format_file_size(size_bytes) ==
    IF IsNone(size_bytes) THEN None
    ELSE Some(FormatSizeFrom(Get(size_bytes), 1))

----------------------------------------------------------------------------
\* models.py

\* DownloadType: the enumeration's values
DownloadType == { <<"v","i","d","e","o">>, <<"a","u","d","i","o">> }
VIDEO == <<"v","i","d","e","o">>
AUDIO == <<"a","u","d","i","o">>

\* fault: no ValueError, any string passes as a download type
DownloadTypeOf_any(value) == Some(value)

\* DownloadType(value): Some(member) or None for ValueError
DownloadTypeOf(value) == IF value \in DownloadType THEN Some(value) ELSE None

\* A message: the fixed phrase it starts with, the rest of its fixed text
\* and the interpolated value (a sequence of strings).
Message(phrase, rest, arg) == [phrase |-> phrase, rest |-> rest, arg |-> arg]

\* ErrorResponse(message=, platform=, download_type=).dict()
ErrorResponse(message, platform, download_type) ==
    [status |-> "error", message |-> message, file_path |-> None,
     platform |-> platform, download_type |-> download_type]

\* DownloadResponse(...).dict()
DownloadResponse(message, file_path, platform, download_type, file_size, duration) ==
    [status |-> "success", message |-> message, file_path |-> file_path,
     platform |-> platform, download_type |-> download_type,
     file_size |-> file_size, duration |-> duration]

\* An exception leaving the function: what the caller sees when nothing
\* catches it.
Raised(exc) == [status |-> "raised", exc |-> exc]

----------------------------------------------------------------------------
\* Inputs and environment

MaxReported == 2

\* URLs passed by callers
URL_YOUTU_BE == <<"h","t","t","p","s",":","/","/">> \o youtu_be \o <<"/","a">>
URL_EXAMPLE == <<"h","t","t","p","s",":","/","/","e","x","a","m","p","l","e",".","c","o","m","/","v">>
URL_VIMEO_UPPER == <<"H","T","T","P","S",":","/","/","V","I","M","E","O",".","C","O","M","/","1">>
URL_NOT_A_URL == <<"n","o","p","e">>
Urls == {URL_YOUTU_BE, URL_EXAMPLE, URL_VIMEO_UPPER, URL_NOT_A_URL}

\* download_type arguments passed by callers
TypeArgs == {VIDEO, <<"A","u","d","i","o">>, <<"f","o","o">>}

\* Paths in the download directory (outtmpl: download_dir / title.ext)
Path(base, ext) == [dir |-> "downloads", base |-> base, ext |-> ext]
Files == {Path("X", "webm"), Path("X", "mp3"), Path("Y", "webm")}

\* byte counts os.path.getsize may report
Sizes == {0, 1536, 1048576}

\* os.path.splitext(file_path)[0] + ".mp3"
Mp3Of(f) == [f EXCEPT !.ext = "mp3"]

\* os.path.abspath
abspath(f) == [f EXCEPT !.dir = "/cwd/" \o f.dir]

\* Metadata the engine may return: a dict (possibly empty, possibly with a
\* duration that is no number) or a non-dict value.
InfoDict(duration) == [kind |-> "dict", empty |-> FALSE, duration |-> duration]
EmptyDict == [kind |-> "dict", empty |-> TRUE, duration |-> NoDuration]
NonDict == [kind |-> "list", empty |-> FALSE, duration |-> NoDuration]
Durations == {0, 65, 3665}
InfoValues ==
    {None, Some(EmptyDict), Some(NonDict), Some(InfoDict(NoDuration)),
     Some(InfoDict(BadDuration))}
    \cup {Some(InfoDict(NumDuration(d))) : d \in Durations}

\* fault: "if info is None" in place of "if not info"
Truthy_notnone(i) == IsSome(i)

\* bool(info)
Truthy(i) == IsSome(i) /\ ~Get(i).empty

\* Exceptions.  yt_dlp.DownloadError is the engine's one error class for a
\* failed download, whatever the cause; every class here derives from
\* Exception.
Exc(class, cause) == [class |-> class, cause |-> cause]
NoExc == Exc("none", "none")
DownloadErrors == {Exc("DownloadError", c) : c \in {"format", "network"}}
OtherErrors == {Exc("OSError", "disk")}

\* what ydl.extract_info(url, download=False) may do
ExtractOutcomes ==
    {[exc |-> e, value |-> None] : e \in DownloadErrors \cup OtherErrors}
    \cup {[exc |-> NoExc, value |-> v] : v \in InfoValues}

\* how ydl.download([url]) may end
DownloadOutcomes == {NoExc} \cup DownloadErrors \cup OtherErrors

\* VideoDownloader._extract_info: any exception becomes None
_extract_info(outcome) ==
    IF outcome.exc # NoExc THEN None ELSE outcome.value

\* VideoDownloader._get_download_options
_get_download_options(t) ==
    IF t = AUDIO
    THEN [format |-> "bestaudio/best", preferredquality |-> "192",
          merge_output_format |-> "none"]
    ELSE [format |-> "best[height<=1080][ext=mp4]/best[height<=720][ext=mp4]/best[ext=mp4]/best[height<=1080]/best[height<=720]/worst[height>=360]/best",
          preferredquality |-> "none", merge_output_format |-> "mp4"]

\* the fallback profile built in download()
fallback_options(opts, t) ==
    IF t = AUDIO
    THEN [opts EXCEPT !.format = "worst[acodec!=none]/bestaudio/worst",
                      !.preferredquality = "128"]
    ELSE [opts EXCEPT !.format = "worst[height>=360]/worst"]

NoOptions == [format |-> "none", preferredquality |-> "none", merge_output_format |-> "none"]

\* Messages
MSG_INVALID_TYPE(t) ==
    Message("Invalid download type", ". Must be 'video' or 'audio', got ", t)
MSG_UNSUPPORTED ==
    Message("Unsupported platform or invalid URL", ". Supported platforms: ",
            get_supported_platforms)
MSG_EXTRACT_FAILED ==
    Message("Failed to extract video information",
            ". The URL might be invalid or the video might be private.", <<>>)
MSG_EXTRACT_FAILED_SHORT ==
    Message("Failed to extract video information", ".", <<>>)
MSG_NO_FILES ==
    Message("Download completed but no files were found", ".", <<>>)
MSG_FILE_NOT_FOUND(f) ==
    Message("Downloaded file not found", ": ", <<f.dir, f.base, f.ext>>)
MSG_DOWNLOAD_FAILED(e) == Message("Download failed", ": ", <<e.cause>>)
MSG_UNEXPECTED(e) == Message("An unexpected error occurred", ": ", <<e.cause>>)
MSG_INFO_FAILED(e) == Message("Failed to get video information", ": ", <<e.cause>>)
MSG_LIST_FAILED(e) == Message("Failed to list formats", ": ", <<e.cause>>)
MSG_DOWNLOADED(t) ==
    Message(IF t = AUDIO THEN "Audio" ELSE "Video", " downloaded successfully.", <<>>)

\* fault: only "except yt_dlp.DownloadError", no "except Exception"
download_except_narrow(exc, platform_, download_type_) ==
    IF exc.class = "DownloadError"
    THEN ErrorResponse(MSG_DOWNLOAD_FAILED(exc), platform_, Some(download_type_))
    ELSE Raised(exc)

\* the two except clauses closing download()
download_except(exc, platform_, download_type_) ==
    IF exc.class = "DownloadError"
    THEN ErrorResponse(MSG_DOWNLOAD_FAILED(exc), platform_, Some(download_type_))
    ELSE ErrorResponse(MSG_UNEXPECTED(exc), platform_, Some(download_type_))

----------------------------------------------------------------------------
\* State

VARIABLES
    pc,                \* position of the running call ("idle": no call)
    op,                \* the method called
    url,               \* argument url
    download_type,     \* argument download_type, as passed
    dl_type,           \* local dl_type: None until validated
    platform,          \* local platform: None until detected
    info,              \* local info
    options,           \* option profile handed to the engine's download
    downloaded_files,  \* list filled by the two hooks
    file_path,         \* local file_path
    file_size,         \* local file_size
    result,            \* the value returned to the caller
    calls,             \* engine operations invoked by the call, in order
    errors,            \* exceptions the engine's download raised, in order
    path_exists,       \* what os.path.exists(file_path) answered when the file was ensured
    size_exists,       \* what os.path.exists(file_path) answered before the size was read
    fs,                \* files existing in the download directory
    arg,               \* the argument a helper function is applied to
    ret,               \* what the helper functions returned for arg
    front,             \* a request to the HTTP API or a run of the CLI, and its answer
    shared,            \* the one VideoDownloader of the API: option dicts, download directory
    workers,           \* the calls running on it at the same time, each with its locals
    srv                \* a GET /files or GET /download/{filename} request being served

\* the state of one download(), get_video_info() or list_formats() call
core == <<pc, op, url, download_type, dl_type, platform, info, options,
          downloaded_files, file_path, file_size, result, calls, errors,
          path_exists, size_exists, fs>>

\* the state around it: helper functions applied on their own
\* the API process serving requests at the same time
conc == <<shared, workers, srv>>

ext == <<arg, ret, front, conc>>

vars == <<core, ext>>

locals == <<dl_type, platform, info, options, downloaded_files, file_path,
            file_size, calls, errors, path_exists, size_exists>>

NoResult == [status |-> "none"]

CoreInit ==
    /\ pc = "idle"
    /\ op = "none"
    /\ url = <<>>
    /\ download_type = <<>>
    /\ dl_type = None
    /\ platform = None
    /\ info = None
    /\ options = NoOptions
    /\ downloaded_files = <<>>
    /\ file_path = None
    /\ file_size = None
    /\ result = NoResult
    /\ calls = <<>>
    /\ errors = <<>>
    /\ path_exists = None
    /\ size_exists = None
    /\ fs = {}

\* no request was made
NoFront == [via |-> "none"]

Init ==
    /\ CoreInit
    /\ arg = <<>>
    /\ ret = <<>>
    /\ front = NoFront
    /\ shared = <<>>
    /\ workers = <<>>
    /\ srv = <<>>

\* return result
Finish(r) == pc' = "done" /\ result' = r

----------------------------------------------------------------------------
\* VideoDownloader.download, statement by statement

\* a caller invokes download(u, t)
download_call(u, t) ==
    /\ pc = "idle"
    /\ pc' = "validate"
    /\ op' = "download"
    /\ url' = u
    /\ download_type' = t
    /\ UNCHANGED <<locals, result, fs>>
    /\ UNCHANGED ext

\* dl_type = DownloadType(download_type.lower()), ValueError -> error
download_validate ==
    /\ pc = "validate"
    /\ LET t == DownloadTypeOf(Lower(download_type)) IN
       IF IsNone(t)
       THEN /\ Finish(ErrorResponse(MSG_INVALID_TYPE(download_type), None, None))
            /\ UNCHANGED dl_type
       ELSE /\ dl_type' = t
            /\ pc' = "detect"
            /\ UNCHANGED result
    /\ UNCHANGED <<op, url, download_type, platform, info, options, downloaded_files,
                   file_path, file_size, calls, errors, path_exists, size_exists, fs>>
    /\ UNCHANGED ext

\* fault: the "if not platform" return is missing
download_detect_nocheck ==
    /\ pc = "detect"
    /\ platform' = detect_platform(url)
    /\ pc' = "extract"
    /\ UNCHANGED <<op, url, download_type, dl_type, info, options, downloaded_files,
                   file_path, file_size, result, calls, errors, path_exists,
                   size_exists, fs>>
    /\ UNCHANGED ext

\* platform = PlatformDetector.detect_platform(url)
download_detect ==
    /\ pc = "detect"
    /\ LET p == detect_platform(url) IN
       IF IsNone(p)
       THEN /\ Finish(ErrorResponse(MSG_UNSUPPORTED, None, Some(download_type)))
            /\ UNCHANGED platform
       ELSE /\ platform' = p
            /\ pc' = "extract"
            /\ UNCHANGED result
    /\ UNCHANGED <<op, url, download_type, dl_type, info, options, downloaded_files,
                   file_path, file_size, calls, errors, path_exists, size_exists, fs>>
    /\ UNCHANGED ext

\* info = self._extract_info(url)
download_extract(outcome) ==
    /\ pc = "extract"
    /\ calls' = Append(calls, "extract_info")
    /\ LET i == _extract_info(outcome) IN
       IF ~Truthy(i)
       THEN /\ Finish(ErrorResponse(MSG_EXTRACT_FAILED, platform, Some(download_type)))
            /\ info' = i
       ELSE /\ info' = i
            /\ pc' = "options"
            /\ UNCHANGED result
    /\ UNCHANGED <<op, url, download_type, dl_type, platform, options, downloaded_files,
                   file_path, file_size, errors, path_exists, size_exists, fs>>
    /\ UNCHANGED ext

\* options = self._get_download_options(dl_type); the hooks are installed and
\* the engine's download is entered with that profile
download_primary_start ==
    /\ pc = "options"
    /\ options' = _get_download_options(Get(dl_type))
    /\ downloaded_files' = <<>>
    /\ calls' = Append(calls, "download")
    /\ pc' = "primary"
    /\ UNCHANGED <<op, url, download_type, dl_type, platform, info, file_path,
                   file_size, result, errors, path_exists, size_exists, fs>>
    /\ UNCHANGED ext

InEngine == pc \in {"primary", "fallback"}

\* hook(d): the engine's progress hook
hook(status, filename) ==
    /\ InEngine
    /\ Len(downloaded_files) < MaxReported
    /\ downloaded_files' =
          IF status = "finished" THEN Append(downloaded_files, filename)
          ELSE downloaded_files
    /\ UNCHANGED <<pc, op, url, download_type, dl_type, platform, info, options,
                   file_path, file_size, result, calls, errors, path_exists,
                   size_exists, fs>>
    /\ UNCHANGED ext

\* postprocessor_hook(d): processed_file is d['info_dict'].get('_filename')
postprocessor_hook(status, processed_file) ==
    /\ InEngine
    /\ Len(downloaded_files) < MaxReported
    /\ downloaded_files' =
          IF /\ status = "finished"
             /\ IsSome(processed_file)
             /\ ~(\E k \in 1..Len(downloaded_files) :
                     downloaded_files[k] = Get(processed_file))
          THEN Append(downloaded_files, Get(processed_file))
          ELSE downloaded_files
    /\ UNCHANGED <<pc, op, url, download_type, dl_type, platform, info, options,
                   file_path, file_size, result, calls, errors, path_exists,
                   size_exists, fs>>
    /\ UNCHANGED ext

\* the first ydl.download([url]) ends: a DownloadError enters the fallback
\* attempt, any other exception reaches the closing except clauses
download_primary_end(outcome) ==
    /\ pc = "primary"
    /\ IF outcome = NoExc
       THEN /\ pc' = "collect"
            /\ UNCHANGED <<options, calls, errors, result>>
       ELSE IF outcome.class = "DownloadError"
       THEN /\ errors' = Append(errors, outcome)
            /\ options' = fallback_options(options, Get(dl_type))
            /\ calls' = Append(calls, "download")
            /\ pc' = "fallback"
            /\ UNCHANGED result
       ELSE /\ errors' = Append(errors, outcome)
            /\ Finish(download_except(outcome, platform, download_type))
            /\ UNCHANGED <<options, calls>>
    /\ UNCHANGED <<op, url, download_type, dl_type, platform, info, downloaded_files,
                   file_path, file_size, path_exists, size_exists, fs>>
    /\ UNCHANGED ext

\* fault: a DownloadError of the fallback attempt starts another attempt
download_fallback_end_retry(outcome) ==
    /\ pc = "fallback"
    /\ IF outcome = NoExc
       THEN /\ pc' = "collect"
            /\ UNCHANGED <<errors, result, calls>>
       ELSE IF outcome.class = "DownloadError"
       THEN /\ errors' = Append(errors, outcome)
            /\ calls' = Append(calls, "download")
            /\ UNCHANGED <<pc, result>>
       ELSE /\ errors' = Append(errors, outcome)
            /\ Finish(download_except(outcome, platform, download_type))
            /\ UNCHANGED calls
    /\ UNCHANGED <<op, url, download_type, dl_type, platform, info, options,
                   downloaded_files, file_path, file_size, path_exists,
                   size_exists, fs>>
    /\ UNCHANGED ext

\* the fallback ydl.download([url]) ends: every exception reaches the closing
\* except clauses
download_fallback_end(outcome) ==
    /\ pc = "fallback"
    /\ IF outcome = NoExc
       THEN /\ pc' = "collect"
            /\ UNCHANGED <<errors, result>>
       ELSE /\ errors' = Append(errors, outcome)
            /\ Finish(download_except(outcome, platform, download_type))
    /\ UNCHANGED <<op, url, download_type, dl_type, platform, info, options,
                   downloaded_files, file_path, file_size, calls, path_exists,
                   size_exists, fs>>
    /\ UNCHANGED ext

\* fault: the .mp3 sibling is preferred whatever the download type
download_collect_anytype ==
    /\ pc = "collect"
    /\ IF downloaded_files = <<>>
       THEN /\ Finish(ErrorResponse(MSG_NO_FILES, platform, Some(download_type)))
            /\ UNCHANGED file_path
       ELSE LET first == downloaded_files[1]
                mp3_file == Mp3Of(first)
            IN  /\ file_path' = IF mp3_file \in fs /\ first # mp3_file
                                THEN Some(mp3_file) ELSE Some(first)
                /\ pc' = "ensure"
                /\ UNCHANGED result
    /\ UNCHANGED <<op, url, download_type, dl_type, platform, info, options,
                   downloaded_files, file_size, calls, errors, path_exists,
                   size_exists, fs>>
    /\ UNCHANGED ext

\* if not downloaded_files: error; file_path = downloaded_files[0]; for audio
\* the .mp3 sibling is preferred when it exists and is another path
download_collect ==
    /\ pc = "collect"
    /\ IF downloaded_files = <<>>
       THEN /\ Finish(ErrorResponse(MSG_NO_FILES, platform, Some(download_type)))
            /\ UNCHANGED file_path
       ELSE LET first == downloaded_files[1]
                mp3_file == Mp3Of(first)
            IN  /\ file_path' = IF /\ Get(dl_type) = AUDIO
                                   /\ mp3_file \in fs
                                   /\ first # mp3_file
                                THEN Some(mp3_file) ELSE Some(first)
                /\ pc' = "ensure"
                /\ UNCHANGED result
    /\ UNCHANGED <<op, url, download_type, dl_type, platform, info, options,
                   downloaded_files, file_size, calls, errors, path_exists,
                   size_exists, fs>>
    /\ UNCHANGED ext

\* fault: the file is not looked for before the result is assembled
download_ensure_nocheck ==
    /\ pc = "ensure"
    /\ path_exists' = Some(Get(file_path) \in fs)
    /\ pc' = "size"
    /\ UNCHANGED <<op, url, download_type, dl_type, platform, info, options,
                   downloaded_files, file_path, file_size, result, calls, errors,
                   size_exists, fs>>
    /\ UNCHANGED ext

\* if not os.path.exists(file_path): error
download_ensure ==
    /\ pc = "ensure"
    /\ path_exists' = Some(Get(file_path) \in fs)
    /\ IF Get(file_path) \notin fs
       THEN Finish(ErrorResponse(MSG_FILE_NOT_FOUND(Get(file_path)), platform,
                                 Some(download_type)))
       ELSE pc' = "size" /\ UNCHANGED result
    /\ UNCHANGED <<op, url, download_type, dl_type, platform, info, options,
                   downloaded_files, file_path, file_size, calls, errors,
                   size_exists, fs>>
    /\ UNCHANGED ext

\* file_size = None; if os.path.exists(file_path): ...
download_size_check ==
    /\ pc = "size"
    /\ size_exists' = Some(Get(file_path) \in fs)
    /\ pc' = IF Get(file_path) \in fs THEN "getsize" ELSE "assemble"
    /\ UNCHANGED <<op, url, download_type, dl_type, platform, info, options,
                   downloaded_files, file_path, file_size, result, calls, errors,
                   path_exists, fs>>
    /\ UNCHANGED ext

\* size_bytes = os.path.getsize(file_path) (OSError when the file is gone);
\* file_size = self._format_file_size(size_bytes)
download_getsize(size_bytes) ==
    /\ pc = "getsize"
    /\ IF Get(file_path) \in fs
       THEN /\ file_size' = _format_file_size(Some(Bytes(size_bytes)))
            /\ pc' = "assemble"
            /\ UNCHANGED result
       ELSE /\ Finish(download_except(Exc("OSError", "No such file"), platform,
                                      download_type))
            /\ UNCHANGED file_size
    /\ UNCHANGED <<op, url, download_type, dl_type, platform, info, options,
                   downloaded_files, file_path, calls, errors, path_exists,
                   size_exists, fs>>
    /\ UNCHANGED ext

\* duration = self._format_duration(info.get('duration')); return the
\* DownloadResponse.  info.get fails on a non-dict, the arithmetic of
\* _format_duration on a duration that is no number.
download_assemble ==
    /\ pc = "assemble"
    /\ LET i == Get(info) IN
       IF i.kind # "dict"
       THEN Finish(download_except(Exc("AttributeError", "get"), platform, download_type))
       ELSE IF i.duration.tag = "str"
       THEN Finish(download_except(Exc("TypeError", "unsupported operand"), platform,
                                   download_type))
       ELSE Finish(DownloadResponse(MSG_DOWNLOADED(Get(dl_type)),
                                    Some(abspath(Get(file_path))), platform,
                                    dl_type, file_size,
                                    _format_duration(i.duration)))
    /\ UNCHANGED <<op, url, download_type, locals, fs>>
    /\ UNCHANGED ext

\* the engine or another process creates or removes a file in the download
\* directory while the call runs
fs_change(f) ==
    /\ pc \in {"primary", "fallback", "collect", "ensure", "size", "getsize"}
    /\ fs' = IF f \in fs THEN fs \ {f} ELSE fs \cup {f}
    /\ UNCHANGED <<pc, op, url, download_type, locals, result>>
    /\ UNCHANGED ext

\* the caller has the result; the call's locals are gone
call_return ==
    /\ pc = "done"
    /\ pc' = "idle"
    /\ op' = "none"
    /\ url' = <<>>
    /\ download_type' = <<>>
    /\ dl_type' = None
    /\ platform' = None
    /\ info' = None
    /\ options' = NoOptions
    /\ downloaded_files' = <<>>
    /\ file_path' = None
    /\ file_size' = None
    /\ result' = NoResult
    /\ calls' = <<>>
    /\ errors' = <<>>
    /\ size_exists' = None
    /\ path_exists' = None
    /\ UNCHANGED fs
    /\ UNCHANGED ext

----------------------------------------------------------------------------
\* VideoDownloader.get_video_info and VideoDownloader.list_formats: no step of
\* either reads or writes state another call can touch, so each is one action.

\* the try body of get_video_info: a result, or the exception it raises
get_video_info_body(u, outcome) ==
    LET p == detect_platform(u)
        i == _extract_info(outcome)
    IN  IF IsNone(p) THEN ErrorResponse(MSG_UNSUPPORTED, None, None)
        ELSE IF ~Truthy(i) THEN ErrorResponse(MSG_EXTRACT_FAILED, p, None)
        ELSE IF Get(i).kind # "dict" THEN Raised(Exc("AttributeError", "get"))
        ELSE IF Get(i).duration.tag = "str"
             THEN Raised(Exc("TypeError", "unsupported operand"))
        ELSE [status |-> "success",
              message |-> Message("Video information extracted successfully", ".", <<>>),
              platform |-> p,
              duration |-> _format_duration(Get(i).duration),
              duration_seconds |-> Get(i).duration]

\* except Exception of get_video_info
get_video_info_except(r, p) ==
    IF r.status = "raised"
    THEN ErrorResponse(MSG_INFO_FAILED(r.exc), p, None)
    ELSE r

\* the try body of list_formats
list_formats_body(u, outcome) ==
    LET p == detect_platform(u)
        i == _extract_info(outcome)
    IN  IF IsNone(p) THEN ErrorResponse(MSG_UNSUPPORTED, None, None)
        ELSE IF ~Truthy(i) THEN ErrorResponse(MSG_EXTRACT_FAILED_SHORT, p, None)
        ELSE IF Get(i).kind # "dict" THEN Raised(Exc("AttributeError", "get"))
        ELSE [status |-> "success",
              message |-> Message("Available formats retrieved successfully", ".", <<>>),
              platform |-> p]

\* except Exception of list_formats
list_formats_except(r, p) ==
    IF r.status = "raised"
    THEN ErrorResponse(MSG_LIST_FAILED(r.exc), p, None)
    ELSE r

\* the engine is asked for metadata only when a platform was detected
EngineCalls(u) == IF IsNone(detect_platform(u)) THEN <<>> ELSE <<"extract_info">>

get_video_info(u, outcome) ==
    /\ pc = "idle"
    /\ op' = "get_video_info"
    /\ url' = u
    /\ platform' = detect_platform(u)
    /\ calls' = EngineCalls(u)
    /\ info' = IF IsNone(detect_platform(u)) THEN None ELSE _extract_info(outcome)
    /\ Finish(get_video_info_except(get_video_info_body(u, outcome), detect_platform(u)))
    /\ UNCHANGED <<download_type, dl_type, options, downloaded_files, file_path,
                   file_size, errors, path_exists, size_exists, fs>>
    /\ UNCHANGED ext

list_formats(u, outcome) ==
    /\ pc = "idle"
    /\ op' = "list_formats"
    /\ url' = u
    /\ platform' = detect_platform(u)
    /\ calls' = EngineCalls(u)
    /\ info' = IF IsNone(detect_platform(u)) THEN None ELSE _extract_info(outcome)
    /\ Finish(list_formats_except(list_formats_body(u, outcome), detect_platform(u)))
    /\ UNCHANGED <<download_type, dl_type, options, downloaded_files, file_path,
                   file_size, errors, path_exists, size_exists, fs>>
    /\ UNCHANGED ext

----------------------------------------------------------------------------

HookStatuses == {"downloading", "finished"}
PostprocessorStatuses == {"started", "finished"}

Next ==
    \/ \E u \in Urls, t \in TypeArgs : download_call(u, t)
    \/ download_validate
    \/ download_detect
    \/ \E o \in ExtractOutcomes : download_extract(o)
    \/ download_primary_start
    \/ \E st \in HookStatuses, f \in Files : hook(st, f)
    \/ \E st \in PostprocessorStatuses, pf \in {None} \cup {Some(f) : f \in Files} :
          postprocessor_hook(st, pf)
    \/ \E o \in DownloadOutcomes : download_primary_end(o)
    \/ \E o \in DownloadOutcomes : download_fallback_end(o)
    \/ download_collect
    \/ download_ensure
    \/ download_size_check
    \/ \E n \in Sizes : download_getsize(n)
    \/ download_assemble
    \/ \E f \in Files : fs_change(f)
    \/ \E u \in Urls, o \in ExtractOutcomes : get_video_info(u, o)
    \/ \E u \in Urls, o \in ExtractOutcomes : list_formats(u, o)
    \/ call_return

Spec == Init /\ [][Next]_vars

----------------------------------------------------------------------------
\* DownloadRequest (models.py): the url field and its validator

HTTPS == <<"h","t","t","p","s",":","/","/">>

\* the length of the "http://" or "https://" u starts with, 0 when it has none
SchemeLen(u) ==
    LET http == <<"h","t","t","p",":","/","/">> IN
    IF Len(u) >= Len(HTTPS) /\ Lower(SubSeq(u, 1, Len(HTTPS))) = HTTPS THEN Len(HTTPS)
    ELSE IF Len(u) >= Len(http) /\ Lower(SubSeq(u, 1, Len(http))) = http THEN Len(http)
    ELSE 0

\* the index of the last character of the host of u
HostEnd(u) ==
    LET stops == {i \in (SchemeLen(u) + 1)..Len(u) : u[i] \in {"/", "?", "#"}}
    IN  IF stops = {} THEN Len(u)
        ELSE (CHOOSE i \in stops : \A j \in stops : i <= j) - 1

Host(u) == SubSeq(u, SchemeLen(u) + 1, HostEnd(u))

\* url: HttpUrl, then str(v).  The field accepts a string with an http or
\* https scheme and a host; the string str() gives back is the one passed in
\* (pydantic 1) or has scheme and host lower-cased and an empty path made "/"
\* (pydantic 2): normalise tells which.  None is the validation error.
HttpUrl(u, normalise) ==
    IF SchemeLen(u) = 0 \/ Host(u) = <<>> THEN None
    ELSE IF ~normalise THEN Some(u)
    ELSE Some(Lower(SubSeq(u, 1, HostEnd(u)))
              \o (IF HostEnd(u) = Len(u) THEN <<"/">>
                  ELSE SubSeq(u, HostEnd(u) + 1, Len(u))))

\* domain in url_str
Contains(s, lit) == \E i \in 1..Len(s) : LitAt(lit, s, i)

\* fault: the allowlist names a domain the detector's table does not know
supported_domains_drift ==
    <<youtube_com, youtu_be, facebook_com, fb_watch, twitter_com, x_com,
      instagram_com, tiktok_com, vimeo_com, dailymotion_com, twitch_tv,
      <<"e","x","a","m","p","l","e",".","c","o","m">> >>

supported_domains ==
    <<youtube_com, youtu_be, facebook_com, fb_watch, twitter_com, x_com,
      instagram_com, tiktok_com, vimeo_com, dailymotion_com, twitch_tv>>

\* DownloadRequest.validate_url: Some(v), or None for the ValueError
validate_url(v) ==
    IF \E k \in 1..Len(supported_domains) : Contains(v, supported_domains[k])
    THEN Some(v)
    ELSE None

\* DownloadRequest(url=u, ...).url as a string, or None when validation fails
DownloadRequest_url(u, normalise) ==
    LET v == HttpUrl(u, normalise)
    IN  IF IsNone(v) THEN None ELSE validate_url(Get(v))

\* PlatformDetector.is_supported_platform
is_supported_platform(url_) == IsSome(detect_platform(url_))

----------------------------------------------------------------------------
\* PlatformDetector and DownloadRequest applied to URLs

\* URLs: hosts in and outside the table ("netflix.com" holds "x.com"), in
\* lower and mixed case, with paths that may name another platform
TestUrls ==
    LET hosts == {youtube_com, <<"w","w","w",".">> \o youtube_com, facebook_com,
                  x_com, twitch_tv,
                  <<"e","x","a","m","p","l","e",".","c","o","m">>,
                  <<"n","e","t","f","l","i","x",".","c","o","m">>,
                  <<"W","W","W",".","T","i","k","T","o","k",".","c","o","m">>}
        paths == {<<>>, <<"/","v">>, <<"/">> \o youtube_com}
    IN  Urls \cup {HTTPS \o h \o p : h \in hosts, p \in paths}

\* ret: a function not applied yet has returned nothing (None); Some(v) is
\* its value v
InitUrl ==
    /\ CoreInit
    /\ arg \in TestUrls
    /\ ret = [detect |-> None, supported |-> None, valid |-> None]
    /\ front = NoFront
    /\ shared = <<>>
    /\ workers = <<>>
    /\ srv = <<>>

detect_platform_call ==
    /\ IsNone(ret.detect)
    /\ ret' = [ret EXCEPT !.detect = Some(detect_platform(arg))]
    /\ UNCHANGED <<core, arg, front, conc>>

is_supported_platform_call ==
    /\ IsNone(ret.supported)
    /\ ret' = [ret EXCEPT !.supported = Some(is_supported_platform(arg))]
    /\ UNCHANGED <<core, arg, front, conc>>

DownloadRequest_call(normalise) ==
    /\ IsNone(ret.valid)
    /\ ret' = [ret EXCEPT !.valid = Some(DownloadRequest_url(arg, normalise))]
    /\ UNCHANGED <<core, arg, front, conc>>

NextUrl ==
    \/ detect_platform_call
    \/ is_supported_platform_call
    \/ \E n \in BOOLEAN : DownloadRequest_call(n)

SpecUrl == InitUrl /\ [][NextUrl]_vars

----------------------------------------------------------------------------
\* The HTTP API (api.py) and the command line (cli.py).  Each handler calls
\* the downloader and waits for its result, so a handler is one action and the
\* downloader's answer is any result the call can return.

\* the results download(u, t) returns: the successes when ok, else the errors
download_results(u, t, ok) ==
    LET ty == DownloadTypeOf(Lower(t))
        p == detect_platform(u)
        paths == Files \cup {Mp3Of(f) : f \in Files}
        raised == (DownloadOutcomes \ {NoExc})
                  \cup {Exc("OSError", "No such file"), Exc("AttributeError", "get"),
                        Exc("TypeError", "unsupported operand")}
    IN  IF IsNone(ty) THEN
            IF ok THEN {} ELSE {ErrorResponse(MSG_INVALID_TYPE(t), None, None)}
        ELSE IF IsNone(p) THEN
            IF ok THEN {} ELSE {ErrorResponse(MSG_UNSUPPORTED, None, Some(t))}
        ELSE IF ok THEN
            {DownloadResponse(MSG_DOWNLOADED(Get(ty)), Some(abspath(f)), p, ty, sz, d) :
                f \in paths,
                sz \in {None} \cup {_format_file_size(Some(Bytes(n))) : n \in Sizes},
                d \in {_format_duration(x) :
                          x \in {NoDuration} \cup {NumDuration(k) : k \in Durations}}}
        ELSE {ErrorResponse(MSG_EXTRACT_FAILED, p, Some(t)),
              ErrorResponse(MSG_NO_FILES, p, Some(t))}
             \cup {ErrorResponse(MSG_FILE_NOT_FOUND(f), p, Some(t)) : f \in paths}
             \cup {download_except(e, p, t) : e \in raised}

RECURSIVE int(_)
\* int(s) for a string of decimal digits: Some(n), or None for the ValueError
int(s) ==
    IF s = <<>> \/ ~IsDigit(s[Len(s)]) THEN None
    ELSE LET d == CHOOSE i \in 1..Len(DIGITS) : DIGITS[i] = s[Len(s)]
             front_ == SubSeq(s, 1, Len(s) - 1)
         IN  IF front_ = <<>> THEN Some(d - 1)
             ELSE IF IsNone(int(front_)) THEN None
             ELSE Some(10 * Get(int(front_)) + d - 1)

RECURSIVE split(_, _)
\* s.split(sep) for a one-character sep
split(s, sep) ==
    LET at == {i \in 1..Len(s) : s[i] = sep}
    IN  IF at = {} THEN <<s>>
        ELSE LET i == CHOOSE i \in at : \A j \in at : i <= j
             IN  <<SubSeq(s, 1, i - 1)>> \o split(SubSeq(s, i + 1, Len(s)), sep)

\* fault: only "MM:SS" is parsed, a string of three parts gives None
parse_duration_mmss(info_result) ==
    IF info_result.status # "success" \/ IsNone(info_result.duration)
       \/ Get(info_result.duration) = <<>>
    THEN None
    ELSE LET parts == split(Get(info_result.duration), ":")
             n == [k \in 1..Len(parts) |-> int(parts[k])]
         IN  IF \E k \in 1..Len(parts) : IsNone(n[k]) THEN None
             ELSE IF Len(parts) = 2 THEN Some(Get(n[1]) * 60 + Get(n[2]))
             ELSE None

\* the duration in seconds the Telegram handler parses from info_result
parse_duration(info_result) ==
    IF info_result.status # "success" \/ IsNone(info_result.duration)
       \/ Get(info_result.duration) = <<>>
    THEN None
    ELSE LET parts == split(Get(info_result.duration), ":")
             n == [k \in 1..Len(parts) |-> int(parts[k])]
         IN  IF \E k \in 1..Len(parts) : IsNone(n[k]) THEN None
             ELSE IF Len(parts) = 2 THEN Some(Get(n[1]) * 60 + Get(n[2]))
             ELSE IF Len(parts) = 3
                  THEN Some(Get(n[1]) * 3600 + Get(n[2]) * 60 + Get(n[3]))
             ELSE None

\* the MIME type by download type and file extension
mime_type(t, ext_) ==
    IF t = VIDEO
    THEN (IF ext_ = "webm" THEN "video/webm"
          ELSE IF ext_ = "mkv" THEN "video/x-matroska" ELSE "video/mp4")
    ELSE (IF ext_ = "m4a" THEN "audio/mp4"
          ELSE IF ext_ = "ogg" THEN "audio/ogg" ELSE "audio/mpeg")

\* fault: the failure answer keeps the title of the metadata lookup
telegram_response_keeptitle(success, message, file, file_size_, info_result, platform_, t) ==
    [success |-> success, message |-> message,
     file_url |-> IF success THEN Some(<<"http://localhost:8000/download/", file.base, file.ext>>) ELSE None,
     file_name |-> IF success THEN Some(<<file.base, file.ext>>) ELSE None,
     file_size |-> IF success THEN file_size_ ELSE None,
     duration |-> IF success THEN parse_duration(info_result) ELSE None,
     width |-> IF success /\ t = VIDEO /\ info_result.status = "success"
               THEN Some(1280) ELSE None,
     height |-> IF success /\ t = VIDEO /\ info_result.status = "success"
                THEN Some(720) ELSE None,
     thumbnail |-> None,
     mime_type |-> IF success THEN Some(mime_type(t, file.ext)) ELSE None,
     platform |-> platform_, download_type |-> t,
     title |-> IF info_result.status = "success" THEN Some("info_result.title") ELSE None,
     description |-> IF success /\ info_result.status = "success"
                     THEN Some("info_result.description") ELSE None]

\* the body the Telegram handler answers with: the failure body of lines
\* 122-137 and 214-229, or the success body of lines 191-206 (title and
\* description are the metadata's, whatever they are)
telegram_response(success, message, file, file_size_, info_result, platform_, t) ==
    [success |-> success, message |-> message,
     file_url |-> IF success THEN Some(<<"http://localhost:8000/download/", file.base, file.ext>>) ELSE None,
     file_name |-> IF success THEN Some(<<file.base, file.ext>>) ELSE None,
     file_size |-> IF success THEN file_size_ ELSE None,
     duration |-> IF success THEN parse_duration(info_result) ELSE None,
     width |-> IF success /\ t = VIDEO /\ info_result.status = "success"
               THEN Some(1280) ELSE None,
     height |-> IF success /\ t = VIDEO /\ info_result.status = "success"
                THEN Some(720) ELSE None,
     thumbnail |-> None,
     mime_type |-> IF success THEN Some(mime_type(t, file.ext)) ELSE None,
     platform |-> platform_, download_type |-> t,
     title |-> IF success /\ info_result.status = "success"
               THEN Some("info_result.title") ELSE None,
     description |-> IF success /\ info_result.status = "success"
                     THEN Some("info_result.description") ELSE None]

\* download_type values of request bodies and of --type
FrontTypes == {VIDEO, AUDIO, <<"f","o","o">>}

\* the request body parses as a DownloadRequest
ValidBody(u, t, normalise) ==
    IsSome(DownloadRequest_url(u, normalise)) /\ t \in DownloadType

\* what every answer records
Answer(via, u, t, normalise, invoked, status, body) ==
    [via |-> via, url |-> u, download_type |-> t, normalise |-> normalise,
     invoked |-> invoked, status |-> status, body |-> body,
     info_result |-> NoResult, result |-> NoResult,
     flags |-> [info |-> FALSE, json |-> FALSE, platforms |-> FALSE],
     stdout |-> <<>>, stderr |-> <<>>]

\* fault: an error result is answered like a success
download_video_always200 ==
    /\ front = NoFront
    /\ \E u \in Urls, t \in FrontTypes, normalise \in BOOLEAN, ok \in BOOLEAN :
        /\ ValidBody(u, t, normalise)
        /\ \E r \in download_results(Get(DownloadRequest_url(u, normalise)), t, ok) :
              front' = [Answer("POST /download", u, t, normalise, <<"download">>, 200, r)
                        EXCEPT !.result = r]
    /\ UNCHANGED <<core, arg, ret, conc>>

\* POST /download with a body that is a DownloadRequest: r is the result of
\* downloader.download(str(request.url), request.download_type.value), a
\* success when ok
download_video ==
    /\ front = NoFront
    /\ \E u \in Urls, t \in FrontTypes, normalise \in BOOLEAN, ok \in BOOLEAN :
        /\ ValidBody(u, t, normalise)
        /\ \E r \in download_results(Get(DownloadRequest_url(u, normalise)), t, ok) :
              front' = [Answer("POST /download", u, t, normalise, <<"download">>,
                               IF ok THEN 200 ELSE 400,
                               IF ok THEN r ELSE [detail |-> r])
                        EXCEPT !.result = r]
    /\ UNCHANGED <<core, arg, ret, conc>>

\* POST /download or /download/telegram with a body that is no
\* DownloadRequest: the framework answers, the handler is not entered
request_validation_error ==
    /\ front = NoFront
    /\ \E via \in {"POST /download", "POST /download/telegram"}, u \in Urls,
          t \in FrontTypes, normalise \in BOOLEAN :
        /\ ~ValidBody(u, t, normalise)
        /\ front' = Answer(via, u, t, normalise, <<>>, 422,
                           [detail |-> "validation error"])
    /\ UNCHANGED <<core, arg, ret, conc>>

\* POST /download/telegram: outcome is what the metadata extraction of
\* get_video_info did, r the result of download (a success when ok); exists
\* and st_size are what file_path.exists() and file_path.stat() find (st_size
\* None: the file is gone by then and stat raises)
download_video_telegram ==
    /\ front = NoFront
    /\ \E u \in Urls, t \in FrontTypes, normalise \in BOOLEAN,
          outcome \in ExtractOutcomes, ok \in BOOLEAN, exists \in BOOLEAN,
          st_size \in {None} \cup {Some(k) : k \in Sizes} :
        /\ ValidBody(u, t, normalise)
        /\ ok \/ (~exists /\ st_size = None)
        /\ \E url_ \in {Get(DownloadRequest_url(u, normalise))} :
           \E info_result \in {get_video_info_except(get_video_info_body(url_, outcome),
                                                     detect_platform(url_))} :
               \E r \in download_results(url_, t, ok) :
                 LET a == [Answer("POST /download/telegram", u, t, normalise,
                                  <<"get_video_info", "download">>, 200, NoResult)
                           EXCEPT !.info_result = info_result, !.result = r]
                 IN  IF ~ok
                     THEN front' = [a EXCEPT !.body =
                                       telegram_response(FALSE, r.message, Path("", ""), None,
                                                         info_result, r.platform, t)]
                     ELSE IF exists /\ IsNone(st_size)
                     THEN front' = [a EXCEPT !.status = 500, !.body =
                                       [detail |-> telegram_response(FALSE,
                                           Message("Internal server error", ": ", <<"stat">>),
                                           Path("", ""), None, info_result, None, t)]]
                     ELSE front' = [a EXCEPT !.body =
                                       telegram_response(TRUE,
                                           Message(IF t = AUDIO THEN "Audio" ELSE "Video",
                                                   " downloaded successfully for Telegram bot", <<>>),
                                           Get(r.file_path),
                                           IF exists THEN st_size ELSE None,
                                           info_result, r.platform, t)]
    /\ UNCHANGED <<core, arg, ret, conc>>

\* python -m src.cli url [--type t] [--info] [--json] [--platforms]: the
\* orchestrator's result is that of get_video_info (outcome: what the
\* extraction did) or of download (a success when ok); interrupted: a
\* KeyboardInterrupt arrives while the call runs
main ==
    /\ front = NoFront
    /\ \E u \in Urls, t \in FrontTypes, outcome \in ExtractOutcomes, ok \in BOOLEAN,
          interrupted \in BOOLEAN,
          flags \in [info : BOOLEAN, json : BOOLEAN, platforms : BOOLEAN] :
       LET a == [Answer("cli", u, t, FALSE, <<>>, 0, NoResult) EXCEPT !.flags = flags]
           print(res, called) ==
               IF interrupted
               THEN [a EXCEPT !.invoked = called, !.status = 1,
                              !.stdout = <<"Download interrupted by user">>]
               ELSE IF flags.json
               THEN [a EXCEPT !.invoked = called, !.result = res, !.stdout = <<"json">>]
               ELSE IF res.status = "success"
               THEN [a EXCEPT !.invoked = called, !.result = res, !.stdout = <<"report">>]
               ELSE [a EXCEPT !.invoked = called, !.result = res, !.status = 1,
                              !.stdout = <<"Error">>]
       IN  IF t \notin DownloadType
           THEN front' = [a EXCEPT !.status = 2, !.stderr = <<"usage">>]
           ELSE IF flags.platforms
           THEN front' = [a EXCEPT !.stdout = <<"platforms">>]
           ELSE IF flags.info
           THEN front' = print(get_video_info_except(get_video_info_body(u, outcome),
                                                     detect_platform(u)),
                               <<"get_video_info">>)
           ELSE \E r \in download_results(u, t, ok) :
                   front' = print(r, <<"download">>)
    /\ UNCHANGED <<core, arg, ret, conc>>

\* fault: no "if not url" test, the orchestrator is called with what was sent
info_endpoint_nocheck ==
    /\ front = NoFront
    /\ \E body \in {None, Some(<<>>)} \cup {Some(u) : u \in Urls},
          outcome \in ExtractOutcomes :
        \E url_ \in {IF IsNone(body) THEN <<>> ELSE Get(body)} :
        \E r \in {get_video_info_except(get_video_info_body(url_, outcome),
                                        detect_platform(url_))} :
            front' = [Answer("POST /info", url_, VIDEO, FALSE, <<"get_video_info">>,
                             IF r.status = "error" THEN 400 ELSE 200,
                             IF r.status = "error" THEN [detail |-> r] ELSE r)
                      EXCEPT !.info_result = r]
    /\ UNCHANGED <<core, arg, ret, conc>>

\* POST /info (the handler get_video_info of api.py): body is request.get("url"),
\* None when the key is missing; outcome is what the metadata extraction does
info_endpoint ==
    /\ front = NoFront
    /\ \E body \in {None, Some(<<>>)} \cup {Some(u) : u \in Urls},
          outcome \in ExtractOutcomes :
        \E url_ \in {IF IsNone(body) THEN <<>> ELSE Get(body)} :
          IF url_ = <<>>
          THEN front' = Answer("POST /info", url_, VIDEO, FALSE, <<>>, 400,
                               [detail |-> [message |-> "URL is required"]])
          ELSE \E r \in {get_video_info_except(get_video_info_body(url_, outcome),
                                               detect_platform(url_))} :
                 front' = [Answer("POST /info", url_, VIDEO, FALSE, <<"get_video_info">>,
                                  IF r.status = "error" THEN 400 ELSE 200,
                                  IF r.status = "error" THEN [detail |-> r] ELSE r)
                           EXCEPT !.info_result = r]
    /\ UNCHANGED <<core, arg, ret, conc>>

InitFront ==
    /\ CoreInit
    /\ arg = <<>>
    /\ ret = <<>>
    /\ front = NoFront
    /\ shared = <<>>
    /\ workers = <<>>
    /\ srv = <<>>

NextFront ==
    \/ request_validation_error
    \/ download_video
    \/ download_video_telegram
    \/ main
    \/ info_endpoint

SpecFront == InitFront /\ [][NextFront]_vars

----------------------------------------------------------------------------
\* _format_duration and _format_file_size applied to numbers

\* seconds around every boundary of the rendering, up to more than 100 hours
DurationArgs ==
    {NoDuration} \cup
    {NumDuration(n) : n \in {0, 5, 59, 60, 65, 599, 600, 3599, 3600, 3665,
                             35999, 36000, 86399, 359999, 360000, 363599}}

\* byte counts from 0 to beyond 1024 TB, each below 2^53 or a multiple of a
\* power of 1024 that a float holds exactly
ByteCounts ==
    {None} \cup
    {Some(Bytes(n) \o tl) :
        n \in {1, 512, 1023, 1024, 1075, 1076, 1280, 1536, 1792, 1048575, 1048576},
        tl \in {<<>>, <<0, 0>>, <<0, 0, 0>>, <<0, 0, 0, 0>>, <<512, 0, 1>>}} \cup
    {Some(<<0>>)}

InitFormat ==
    /\ CoreInit
    /\ arg \in [duration : DurationArgs, size_bytes : ByteCounts]
    /\ ret = [duration |-> None, size |-> None, parsed |-> None]
    /\ front = NoFront
    /\ shared = <<>>
    /\ workers = <<>>
    /\ srv = <<>>

_format_duration_call ==
    /\ IsNone(ret.duration)
    /\ ret' = [ret EXCEPT !.duration = Some(_format_duration(arg.duration))]
    /\ UNCHANGED <<core, arg, front, conc>>

_format_file_size_call ==
    /\ IsNone(ret.size)
    /\ ret' = [ret EXCEPT !.size = Some(_format_file_size(arg.size_bytes))]
    /\ UNCHANGED <<core, arg, front, conc>>

\* POST /download/telegram parses the "duration" of the get_video_info
\* result, which is what _format_duration returned
parse_duration_call ==
    /\ ~IsNone(ret.duration)
    /\ IsNone(ret.parsed)
    /\ ret' = [ret EXCEPT !.parsed =
                  Some(parse_duration([status |-> "success", duration |-> Get(ret.duration)]))]
    /\ UNCHANGED <<core, arg, front, conc>>

NextFormat == _format_duration_call \/ _format_file_size_call \/ parse_duration_call

SpecFormat == InitFormat /\ [][NextFormat]_vars

----------------------------------------------------------------------------
\* The format list of the metadata: _get_estimated_file_sizes,
\* _get_video_quality_info, the success result of get_video_info and the
\* descriptors of list_formats.
\*
\* A key of a format dict is <<>> when the dict has no such key and <<v>>
\* when it has, v being None or Some(value).

\* fmt.get(key, default)
get(field, default) == IF field = <<>> THEN default ELSE field[1]

\* format dicts as the engine returns them: video formats of four heights (two
\* of them 1080 high, one with an audio codec too), audio formats (two of one size), formats without size, without
\* codec keys, with a height or a resolution of None
FormatValues ==
    LET Val(x) == <<Some(x)>>
        Null == <<None>>
        V(id, vcodec, h, w, size, approx, res) ==
            [format_id |-> id, vcodec |-> vcodec, acodec |-> Val("none"),
             height |-> h, width |-> w, filesize |-> size,
             filesize_approx |-> approx, resolution |-> res]
        A(id, acodec, size, approx, res) ==
            [format_id |-> id, vcodec |-> Val("none"), acodec |-> acodec,
             height |-> Null, width |-> Null, filesize |-> size,
             filesize_approx |-> approx, resolution |-> res]
    IN  [v1 |-> [V("v1", Val("avc1"), Val(1080), Val(1920), Val(5000), <<>>, Val("1920x1080"))
                    EXCEPT !.acodec = Val("mp4a")],
         v2 |-> V("v2", Val("vp9"), Val(1080), Val(1440), Val(7000), <<>>, Val("1440x1080")),
         v3 |-> V("v3", Val("avc1"), Val(720), Val(1280), Null, Val(3000), Val("1280x720")),
         v4 |-> V("v4", Val("avc1"), Val(480), Val(854), Val(9000), <<>>, Val("854x480")),
         v5 |-> V("v5", Val("av01"), Val(2160), Val(3840), Null, <<>>, Val("3840x2160")),
         v6 |-> V("v6", Val("avc1"), Val(480), <<>>, Val(1500), Val(10), Null),
         v7 |-> V("v7", Val("avc1"), Val(720), Null, Val(800), <<>>, <<>>),
         v8 |-> V("v8", Null, Val(480), Val(640), Val(600), <<>>, Val("640x480")),
         v9 |-> V("v9", Val("avc1"), Null, Null, Val(200), <<>>, Null),
         a1 |-> A("a1", Val("mp4a"), Val(300), <<>>, Val("audio only")),
         a2 |-> A("a2", Val("opus"), Val(300), <<>>, <<>>),
         a3 |-> A("a3", Val("opus"), Val(0), Val(400), Val("audio only")),
         a4 |-> A("a4", Val("mp3"), Val(100), <<>>, Val("audio only")),
         a5 |-> A("a5", Val("mp4a"), <<>>, <<>>, Val("audio only")),
         n1 |-> [format_id |-> "n1", vcodec |-> <<>>, acodec |-> <<>>, height |-> <<>>,
                 width |-> <<>>, filesize |-> Val(100), filesize_approx |-> <<>>,
                 resolution |-> <<>>],
         n2 |-> [format_id |-> "n2", vcodec |-> Val("none"), acodec |-> Val("none"),
                 height |-> <<>>, width |-> <<>>, filesize |-> Val(50),
                 filesize_approx |-> <<>>, resolution |-> <<>>]]

\* info dicts: a duration and a list of formats - every list of at most two
\* formats, and lists longer than the 10, 5 and 3 entries the results keep
InfoArgs ==
    LET F == FormatValues
        all == {F.v1, F.v2, F.v3, F.v4, F.v5, F.v6, F.v7, F.v8, F.v9,
                F.a1, F.a2, F.a3, F.a4, F.a5, F.n1, F.n2}
        lists == {<<>>} \cup {<<f>> : f \in all}
                 \cup {l \in all \X all : l[1] # l[2]}
                 \cup {<<F.v8, F.v7, F.v6, F.v4, F.v3, F.v1, F.v2, F.v5, F.a4, F.a1,
                         F.a2, F.a3, F.n1, F.n2, F.a5>>,
                       <<F.a5, F.a3, F.a2, F.a1, F.a4, F.n2, F.v5, F.v2, F.v1, F.v3,
                         F.v4, F.v6, F.v7, F.v8>>,
                       <<F.v1, F.a1, F.v2, F.a2, F.v3, F.a3, F.v4, F.a4, F.v6, F.v7,
                         F.v8, F.v9>>}
    IN  [duration : {NoDuration, NumDuration(0), NumDuration(180)}, formats : lists]

\* fault: "if" in place of "elif": a format with an audio codec counts as audio
\* whatever its video codec
format_kind_both(fmt) ==
    IF get(fmt.acodec, Some("none")) # Some("none") THEN "audio"
    ELSE IF get(fmt.vcodec, Some("none")) # Some("none") THEN "video"
    ELSE "other"

\* if fmt.get('vcodec', 'none') != 'none': video;
\* elif fmt.get('acodec', 'none') != 'none': audio
format_kind(fmt) ==
    IF get(fmt.vcodec, Some("none")) # Some("none") THEN "video"
    ELSE IF get(fmt.acodec, Some("none")) # Some("none") THEN "audio"
    ELSE "other"

\* fault: no sort, the list is kept as it is
sorted_not(s, keys) == s

\* sorted(s, key=..., reverse=True), keys[i] being the key of s[i]: descending
\* keys, elements of one key in the order they have in s
sorted_desc(s, keys) ==
    LET before(i) == {j \in 1..Len(s) :
                         \/ keys[j] > keys[i]
                         \/ keys[j] = keys[i] /\ j < i}
    IN  [q \in 1..Len(s) |-> s[CHOOSE i \in 1..Len(s) : Cardinality(before(i)) = q - 1]]

\* VideoDownloader._get_estimated_file_sizes(info), formats = info['formats'].
\* raised: "fmt.get('height', 0) >= 720" on a height of None is a TypeError.
_get_estimated_file_sizes(formats) ==
    LET truthy(o) == ~IsNone(o) /\ Get(o) # 0
        size(fmt) == IF truthy(get(fmt.filesize, None)) THEN get(fmt.filesize, None)
                     ELSE get(fmt.filesize_approx, None)
        format_info(fmt) ==
            [format_id |-> fmt.format_id,
             filesize |-> Get(size(fmt)),
             filesize_formatted |-> _format_file_size(Some(Bytes(Get(size(fmt))))),
             resolution |-> get(fmt.resolution, Some("unknown"))]
        RECURSIVE loop(_, _)
        loop(k, st) ==
            IF k > Len(formats) \/ st.raised THEN st
            ELSE LET fmt == formats[k] IN
                 IF ~truthy(size(fmt)) THEN loop(k + 1, st)
                 ELSE IF format_kind(fmt) = "video"
                 THEN LET st1 == [st EXCEPT !.video_formats = Append(@, format_info(fmt))]
                      IN  IF \/ IsNone(st.best_video)
                             \/ Get(size(fmt)) > Get(st.best_video).filesize
                          THEN IF IsNone(get(fmt.height, Some(0)))
                               THEN [st1 EXCEPT !.raised = TRUE]
                               ELSE IF Get(get(fmt.height, Some(0))) >= 720
                               THEN loop(k + 1, [st1 EXCEPT !.best_video = Some(format_info(fmt))])
                               ELSE loop(k + 1, st1)
                          ELSE loop(k + 1, st1)
                 ELSE IF format_kind(fmt) = "audio"
                 THEN LET st1 == [st EXCEPT !.audio_formats = Append(@, format_info(fmt))]
                      IN  IF \/ IsNone(st.best_audio)
                             \/ Get(size(fmt)) > Get(st.best_audio).filesize
                          THEN loop(k + 1, [st1 EXCEPT !.best_audio = Some(format_info(fmt))])
                          ELSE loop(k + 1, st1)
                 ELSE loop(k + 1, st)
        end == loop(1, [raised |-> FALSE, best_video |-> None, best_audio |-> None,
                        video_formats |-> <<>>, audio_formats |-> <<>>])
        keys(l) == [i \in 1..Len(l) |-> l[i].filesize]
        video_sorted == sorted_desc(end.video_formats, keys(end.video_formats))
        audio_sorted == sorted_desc(end.audio_formats, keys(end.audio_formats))
        top(l, n) == SubSeq(l, 1, IF Len(l) < n THEN Len(l) ELSE n)
    IN  IF end.raised
        THEN [raised |-> TRUE, best_video |-> None, best_audio |-> None,
              video_options |-> <<>>, audio_options |-> <<>>, estimated_total |-> None]
        ELSE [raised |-> FALSE,
              best_video |-> end.best_video,
              best_audio |-> end.best_audio,
              video_options |-> top(video_sorted, 5),
              audio_options |-> top(audio_sorted, 3),
              estimated_total |->
                 IF IsNone(end.best_video) /\ IsNone(end.best_audio) THEN None
                 ELSE _format_file_size(Some(Bytes(
                         (IF IsNone(end.best_video) THEN 0 ELSE Get(end.best_video).filesize)
                         + (IF IsNone(end.best_audio) THEN 0 ELSE Get(end.best_audio).filesize))))]

\* fault: "height >= best_video['height']": a later format of the same height
\* replaces the earlier one
_get_video_quality_info_ge(formats) ==
    LET truthy(o) == ~IsNone(o) /\ Get(o) # 0
        label(h) == DecimalDigits(h) \o <<"p">>
        seen == {k \in 1..Len(formats) :
                    /\ get(formats[k].vcodec, Some("none")) # Some("none")
                    /\ truthy(get(formats[k].height, None))}
        height(k) == Get(get(formats[k].height, None))
        best_of(k) ==
            LET width == get(formats[k].width, None)
            IN  [width |-> width, height |-> height(k),
                 resolution |-> IF truthy(width)
                                THEN DecimalDigits(Get(width)) \o <<"x">>
                                     \o DecimalDigits(height(k))
                                ELSE label(height(k)),
                 vcodec |-> get(formats[k].vcodec, None),
                 acodec |-> get(formats[k].acodec, None),
                 quality_label |-> label(height(k))]
        RECURSIVE loop(_, _)
        loop(k, best) ==
            IF k > Len(formats) THEN best
            ELSE IF k \in seen /\ (IsNone(best) \/ height(k) >= Get(best).height)
            THEN loop(k + 1, Some(best_of(k)))
            ELSE loop(k + 1, best)
        best_video == loop(1, None)
        available_qualities == {label(height(k)) : k \in seen}
        key(x) == Get(int(SelectSeq(x, LAMBDA c : c # "p")))
        n == Cardinality(available_qualities)
    IN  {[best_quality |-> best_video,
          available_qualities |-> sorted_desc(order, [i \in 1..n |-> key(order[i])]),
          has_video |-> ~IsNone(best_video),
          max_resolution |-> IF IsNone(best_video) THEN None
                             ELSE Some(Get(best_video).resolution)] :
            order \in {o \in [1..n -> available_qualities] :
                          \A x \in available_qualities : \E i \in 1..n : o[i] = x}}

\* VideoDownloader._get_video_quality_info(info): one result for each order in
\* which list(available_qualities) may yield the elements of the set
_get_video_quality_info(formats) ==
    LET truthy(o) == ~IsNone(o) /\ Get(o) # 0
        label(h) == DecimalDigits(h) \o <<"p">>
        seen == {k \in 1..Len(formats) :
                    /\ get(formats[k].vcodec, Some("none")) # Some("none")
                    /\ truthy(get(formats[k].height, None))}
        height(k) == Get(get(formats[k].height, None))
        best_of(k) ==
            LET width == get(formats[k].width, None)
            IN  [width |-> width, height |-> height(k),
                 resolution |-> IF truthy(width)
                                THEN DecimalDigits(Get(width)) \o <<"x">>
                                     \o DecimalDigits(height(k))
                                ELSE label(height(k)),
                 vcodec |-> get(formats[k].vcodec, None),
                 acodec |-> get(formats[k].acodec, None),
                 quality_label |-> label(height(k))]
        RECURSIVE loop(_, _)
        loop(k, best) ==
            IF k > Len(formats) THEN best
            ELSE IF k \in seen /\ (IsNone(best) \/ height(k) > Get(best).height)
            THEN loop(k + 1, Some(best_of(k)))
            ELSE loop(k + 1, best)
        best_video == loop(1, None)
        available_qualities == {label(height(k)) : k \in seen}
        key(x) == Get(int(SelectSeq(x, LAMBDA c : c # "p")))
        n == Cardinality(available_qualities)
    IN  {[best_quality |-> best_video,
          available_qualities |-> sorted_desc(order, [i \in 1..n |-> key(order[i])]),
          has_video |-> ~IsNone(best_video),
          max_resolution |-> IF IsNone(best_video) THEN None
                             ELSE Some(Get(best_video).resolution)] :
            order \in {o \in [1..n -> available_qualities] :
                          \A x \in available_qualities : \E i \in 1..n : o[i] = x}}

\* get_video_info once the platform p is detected and info_ extracted: the
\* results it may return
video_info(p, info_) ==
    LET file_size_info == _get_estimated_file_sizes(info_.formats)
    IN  IF file_size_info.raised
        THEN {ErrorResponse(MSG_INFO_FAILED(Exc("TypeError", ">=")), p, None)}
        ELSE {[status |-> "success",
               platform |-> p,
               duration |-> _format_duration(info_.duration),
               duration_seconds |-> info_.duration,
               file_sizes |-> file_size_info,
               video_quality |-> video_quality,
               format_count |-> Len(info_.formats)] :
                 video_quality \in _get_video_quality_info(info_.formats)}

\* list_formats: available_formats[:10]
available_formats(formats) ==
    LET format_info(fmt) ==
            [format_id |-> fmt.format_id,
             resolution |-> get(fmt.resolution,
                                IF get(fmt.vcodec, None) = Some("none")
                                THEN Some("audio only") ELSE Some("unknown")),
             filesize |-> IF IsNone(get(fmt.filesize, None)) THEN None
                          ELSE _format_file_size(Some(Bytes(Get(get(fmt.filesize, None))))),
             vcodec |-> get(fmt.vcodec, None),
             acodec |-> get(fmt.acodec, None)]
        all == [k \in 1..Len(formats) |-> format_info(formats[k])]
    IN  SubSeq(all, 1, IF Len(all) < 10 THEN Len(all) ELSE 10)

InitInfo ==
    /\ CoreInit
    /\ arg \in InfoArgs
    /\ ret = [first |-> None, second |-> None, formats |-> None]
    /\ front = NoFront
    /\ shared = <<>>
    /\ workers = <<>>
    /\ srv = <<>>

\* one of two calls of get_video_info on a URL for which the engine returns arg
get_video_info_call(n) ==
    /\ IsNone(ret[n])
    /\ \E r \in video_info(Some("YouTube"), arg) : ret' = [ret EXCEPT ![n] = Some(r)]
    /\ UNCHANGED <<core, arg, front, conc>>

\* a call of list_formats on such a URL
list_formats_call ==
    /\ IsNone(ret.formats)
    /\ ret' = [ret EXCEPT !.formats = Some(available_formats(arg.formats))]
    /\ UNCHANGED <<core, arg, front, conc>>

NextInfo ==
    \/ \E n \in {"first", "second"} : get_video_info_call(n)
    \/ list_formats_call

SpecInfo == InitInfo /\ [][NextInfo]_vars

----------------------------------------------------------------------------
\* The API process: one VideoDownloader (api.py:39) shared by every request.
\* Calls of download / get_video_info / list_formats run at the same time as
\* each other and as the two file endpoints.  Option dicts are objects: a
\* variable holds a reference, and two references to one dict see each
\* other's updates.

\* two calls at a time: interference is between pairs of calls
Calls == {1, 2}

\* references: self.base_options, and the dicts call c creates for its first
\* and its fallback attempt
BaseRef == <<0, 0>>
DictRefs == {BaseRef} \cup (Calls \X {1, 2})

\* self.base_options as __init__ builds it; an absent key is "none" or <<>>
base_options ==
    [format |-> "best", preferredquality |-> "none", merge_output_format |-> "none",
     outtmpl |-> "downloads/%(title)s.%(ext)s",
     progress_hooks |-> <<>>, postprocessor_hooks |-> <<>>]

\* the locals of a call that is not running
NoCall ==
    [pc |-> "idle", op |-> "none", t |-> VIDEO, options |-> BaseRef, attempt |-> 0,
     downloaded_files |-> <<>>, result |-> NoResult]

InitShared ==
    /\ CoreInit
    /\ arg = <<>>
    /\ ret = <<>>
    /\ front = NoFront
    /\ shared = [download_dir |-> "downloads",
                 dicts |-> [r \in DictRefs |-> IF r = BaseRef THEN base_options ELSE NoOptions],
                 dir |-> [c \in Calls |-> "absent"]]
    /\ workers = [c \in Calls |-> NoCall]
    /\ srv = [handler |-> "none", pc |-> "idle", filename |-> 0, pending |-> <<>>,
              files |-> <<>>, status |-> 0]

\* a request handler calls a method of the shared downloader.  get_video_info
\* and list_formats hand the engine a dict of their own ({'quiet': True}) and
\* read nothing else of the downloader.
call(c, m, t) ==
    /\ workers[c].pc = "idle"
    /\ workers' = [workers EXCEPT ![c] =
          IF m = "download"
          THEN [NoCall EXCEPT !.pc = "options", !.op = m, !.t = t]
          ELSE [NoCall EXCEPT !.pc = "done", !.op = m,
                              !.result = [status |-> "success", op |-> m]]]
    /\ UNCHANGED <<core, arg, ret, front, shared, srv>>

\* fault: options = self.base_options, without .copy()
get_download_options_nocopy(c) ==
    /\ workers[c].pc = "options"
    /\ LET profile == _get_download_options(workers[c].t)
       IN  shared' = [shared EXCEPT !.dicts[BaseRef] =
                         [@ EXCEPT !.format = profile.format,
                                   !.preferredquality = profile.preferredquality,
                                   !.merge_output_format = profile.merge_output_format]]
    /\ workers' = [workers EXCEPT ![c].options = BaseRef, ![c].pc = "hooks"]
    /\ UNCHANGED <<core, arg, ret, front, srv>>

\* options = self._get_download_options(dl_type): a copy of base_options,
\* updated with the profile of the download type
get_download_options(c) ==
    /\ workers[c].pc = "options"
    /\ LET profile == _get_download_options(workers[c].t)
       IN  shared' = [shared EXCEPT !.dicts[<<c, 1>>] =
                         [shared.dicts[BaseRef] EXCEPT
                             !.format = profile.format,
                             !.preferredquality = profile.preferredquality,
                             !.merge_output_format = profile.merge_output_format]]
    /\ workers' = [workers EXCEPT ![c].options = <<c, 1>>, ![c].pc = "hooks"]
    /\ UNCHANGED <<core, arg, ret, front, srv>>

\* downloaded_files = []; the two hooks, closures over that list, are stored
\* in options; the engine is entered with options
download_engine_start(c) ==
    /\ workers[c].pc = "hooks"
    /\ shared' = [shared EXCEPT !.dicts[workers[c].options] =
                     [@ EXCEPT !.progress_hooks = <<c>>, !.postprocessor_hooks = <<c>>]]
    /\ workers' = [workers EXCEPT ![c].downloaded_files = <<>>, ![c].attempt = 1,
                                  ![c].pc = "engine"]
    /\ UNCHANGED <<core, arg, ret, front, srv>>

\* the dict the engine of call c runs with
EngineDict(c) ==
    shared.dicts[IF workers[c].attempt = 2 THEN <<c, 2>> ELSE workers[c].options]

\* the engine of call c starts writing the file its outtmpl names
engine_write(c) ==
    /\ workers[c].pc = "engine"
    /\ shared.dir[c] = "absent"
    /\ shared' = [shared EXCEPT !.dir[c] = "writing"]
    /\ UNCHANGED <<core, arg, ret, front, workers, srv>>

\* the file is complete: the engine calls the progress hooks of the dict it
\* runs with, and each hook appends to the list it closes over
engine_finished(c) ==
    /\ workers[c].pc = "engine"
    /\ shared.dir[c] = "writing"
    /\ \A o \in Calls : Len(workers[o].downloaded_files) < MaxReported
    /\ shared' = [shared EXCEPT !.dir[c] = "complete"]
    /\ LET hooks == EngineDict(c).progress_hooks
           d == [filename |-> c, by |-> c, format |-> EngineDict(c).format]
       IN  workers' = [o \in Calls |->
              IF \E k \in 1..Len(hooks) : hooks[k] = o
              THEN [workers[o] EXCEPT !.downloaded_files = Append(@, d)]
              ELSE workers[o]]
    /\ UNCHANGED <<core, arg, ret, front, srv>>

\* the engine removes a file of its own: a partial file after a failure, the
\* original after post-processing
engine_remove(c) ==
    /\ workers[c].pc = "engine"
    /\ shared.dir[c] # "absent"
    /\ shared' = [shared EXCEPT !.dir[c] = "absent"]
    /\ UNCHANGED <<core, arg, ret, front, workers, srv>>

\* ydl.download([url]) ends.  A DownloadError of the first attempt enters the
\* fallback attempt with fallback_options = options.copy(), updated.
engine_end(c, outcome) ==
    /\ workers[c].pc = "engine"
    /\ IF outcome = NoExc
       THEN /\ workers' = [workers EXCEPT ![c].pc = "collect"]
            /\ UNCHANGED shared
       ELSE IF workers[c].attempt = 1
       THEN /\ shared' = [shared EXCEPT !.dicts[<<c, 2>>] =
                             fallback_options(shared.dicts[workers[c].options],
                                              workers[c].t)]
            /\ workers' = [workers EXCEPT ![c].attempt = 2]
       ELSE /\ workers' = [workers EXCEPT ![c].pc = "done",
                                          ![c].result = [status |-> "error", op |-> "download"]]
            /\ UNCHANGED shared
    /\ UNCHANGED <<core, arg, ret, front, srv>>

\* the result is built from downloaded_files[0]
download_return(c) ==
    /\ workers[c].pc = "collect"
    /\ workers' = [workers EXCEPT ![c].pc = "done", ![c].result =
          IF workers[c].downloaded_files = <<>>
          THEN [status |-> "error", op |-> "download"]
          ELSE [status |-> "success", op |-> "download",
                file |-> workers[c].downloaded_files[1]]]
    /\ UNCHANGED <<core, arg, ret, front, shared, srv>>

\* GET /files: downloader.download_dir.iterdir()
list_files_iterdir ==
    /\ srv.handler = "none"
    /\ srv' = [srv EXCEPT !.handler = "list_files", !.pc = "is_file",
                 !.pending = IF shared.dir[1] # "absent"
                             THEN (IF shared.dir[2] # "absent" THEN <<1, 2>> ELSE <<1>>)
                             ELSE (IF shared.dir[2] # "absent" THEN <<2>> ELSE <<>>)]
    /\ UNCHANGED <<core, arg, ret, front, shared, workers>>

\* the next entry: if file_path.is_file(); after the last one the list is
\* returned
list_files_next ==
    /\ srv.handler = "list_files" /\ srv.pc = "is_file"
    /\ IF srv.pending = <<>>
       THEN srv' = [srv EXCEPT !.pc = "done", !.status = 200]
       ELSE IF shared.dir[Head(srv.pending)] = "absent"
       THEN srv' = [srv EXCEPT !.pending = Tail(@)]
       ELSE srv' = [srv EXCEPT !.pc = "stat"]
    /\ UNCHANGED <<core, arg, ret, front, shared, workers>>

\* stat = file_path.stat() and files.append(...); FileNotFoundError reaches
\* "except Exception", which answers 500
list_files_stat ==
    /\ srv.handler = "list_files" /\ srv.pc = "stat"
    /\ LET f == Head(srv.pending) IN
       IF shared.dir[f] = "absent"
       THEN srv' = [srv EXCEPT !.pc = "done", !.status = 500]
       ELSE srv' = [srv EXCEPT !.pc = "is_file", !.pending = Tail(@),
                       !.files = Append(@, [filename |-> f, state |-> shared.dir[f]])]
    /\ UNCHANGED <<core, arg, ret, front, shared, workers>>

\* GET /download/{filename}: if not file_path.exists(): 404; else a
\* FileResponse for the path is returned
download_file(filename) ==
    /\ srv.handler = "none"
    /\ IF shared.dir[filename] = "absent"
       THEN srv' = [srv EXCEPT !.handler = "download_file", !.filename = filename,
                               !.pc = "done", !.status = 404]
       ELSE srv' = [srv EXCEPT !.handler = "download_file", !.filename = filename,
                               !.pc = "send"]
    /\ UNCHANGED <<core, arg, ret, front, shared, workers>>

\* the FileResponse is sent: the file is opened then; one that is gone raises
\* in the server, which answers 500
download_file_send ==
    /\ srv.handler = "download_file" /\ srv.pc = "send"
    /\ IF shared.dir[srv.filename] = "absent"
       THEN srv' = [srv EXCEPT !.pc = "done", !.status = 500]
       ELSE srv' = [srv EXCEPT !.pc = "done", !.status = 200,
                       !.files = <<[filename |-> srv.filename,
                                    state |-> shared.dir[srv.filename]]>>]
    /\ UNCHANGED <<core, arg, ret, front, shared, workers>>

NextShared ==
    \/ \E c \in Calls, m \in {"download", "get_video_info", "list_formats"},
          t \in DownloadType : call(c, m, t)
    \/ \E c \in Calls : get_download_options(c)
    \/ \E c \in Calls : download_engine_start(c)
    \/ \E c \in Calls : engine_write(c)
    \/ \E c \in Calls : engine_finished(c)
    \/ \E c \in Calls : engine_remove(c)
    \/ \E c \in Calls, o \in {NoExc} \cup DownloadErrors : engine_end(c, o)
    \/ \E c \in Calls : download_return(c)
    \/ list_files_iterdir
    \/ list_files_next
    \/ list_files_stat
    \/ \E f \in Calls : download_file(f)
    \/ download_file_send

SpecShared == InitShared /\ [][NextShared]_vars

----------------------------------------------------------------------------
\* Properties

\* extraction raised or returned nothing: no metadata, or an empty one
ExtractedNothing(i) == IsNone(i) \/ Get(i).empty

Count(seq, x) == Cardinality({k \in 1..Len(seq) : seq[k] = x})

\* a and b are the same string up to the case of their letters
EqIgnoreCase(a, b) ==
    /\ Len(a) = Len(b)
    /\ \A i \in 1..Len(a) :
          \/ a[i] = b[i]
          \/ \E k \in 1..Len(UPPER) : {a[i], b[i]} = {UPPER[k], LOWER[k]}

\* t names a download type, whatever the case of its letters
ValidType(t) == \E v \in DownloadType : EqIgnoreCase(t, v)

EnumeratesPlatforms(m) ==
    \A p \in 1..Len(PLATFORM_PATTERNS) :
        \E k \in 1..Len(m.arg) : m.arg[k] = PLATFORM_PATTERNS[p].platform

IsUnsupportedError(r) ==
    /\ r.status = "error"
    /\ r.message.phrase = "Unsupported platform or invalid URL"
    /\ EnumeratesPlatforms(r.message)

DownloadInvokedInOrder ==
    (Count(calls, "download") > 0) =>
        /\ IsSome(dl_type) /\ Get(dl_type) \in DownloadType
        /\ IsSome(platform)
        /\ ~ExtractedNothing(info)
        /\ calls[1] = "extract_info"

\* C1 as stated: the engine's download is invoked only after the type was
\* validated, a platform detected and metadata extracted; and whenever the URL
\* matches no platform, download(), get_video_info() and list_formats() return
\* the error enumerating the supported platforms and invoke no engine operation.
C1_Original ==
    /\ DownloadInvokedInOrder
    /\ (pc = "done" /\ IsNone(detect_platform(url))) =>
          (IsUnsupportedError(result) /\ calls = <<>>)

\* C1, amended: as C1, where download() answers an unsupported URL with the
\* error enumerating the platforms when its download type is valid (an invalid
\* type is reported first); no engine operation is invoked in either case.
C1_UnsupportedBeforeEngine ==
    /\ DownloadInvokedInOrder
    /\ (pc = "done" /\ IsNone(detect_platform(url))) =>
          /\ calls = <<>>
          /\ (op = "download" => ValidType(download_type)) => IsUnsupportedError(result)

C1_Witness ==
    /\ pc = "done" /\ op = "download"
    /\ ValidType(download_type)
    /\ IsNone(detect_platform(url))
    /\ IsUnsupportedError(result)
    /\ calls = <<>>

\* C2: the fallback download attempt is made only when the first attempt
\* failed because of a format error; any other failure of the first attempt
\* ends the call with an error and no second attempt.
C2_FallbackOnlyOnFormatError ==
    /\ (Count(calls, "download") >= 2) =>
          (errors # <<>> /\ errors[1] = Exc("DownloadError", "format"))
    /\ (errors # <<>> /\ errors[1] # Exc("DownloadError", "format")) =>
          (pc = "done" /\ result.status = "error" /\ Count(calls, "download") = 1)

\* C3: in one download() call the engine's download is invoked at most twice
\* and metadata extraction at most once; a failed fallback attempt ends the
\* call with an error result.
C3_AtMostOneRetry ==
    /\ Count(calls, "download") <= 2
    /\ Count(calls, "extract_info") <= 1
    /\ (op = "download" /\ Len(errors) = 2) =>
          (pc = "done" /\ result.status = "error" /\ Count(calls, "download") = 2)

C3_Witness ==
    /\ pc = "done" /\ op = "download"
    /\ Len(errors) = 2
    /\ Count(calls, "download") = 2
    /\ result.status = "error"

\* the engine's last operation failed, or its metadata cannot be used
EngineFailed ==
    \/ calls # <<>> /\ ExtractedNothing(info)
    \/ Count(calls, "download") > 0 /\ Len(errors) = Count(calls, "download")
    \/ /\ op \in {"get_video_info", "list_formats"}
       /\ ~ExtractedNothing(info) /\ Get(info).kind # "dict"
    \/ /\ op = "get_video_info"
       /\ ~ExtractedNothing(info) /\ Get(info).duration.tag = "str"

\* C4: download(), get_video_info() and list_formats() never leave by an
\* exception: every call returns a success or an error result, and an error
\* result with a message whenever the engine raised, returned nothing or
\* returned metadata that cannot be used.
C4_NeverRaises ==
    (pc = "done") =>
        /\ result.status \in {"success", "error"}
        /\ (result.status = "error") => (result.message.phrase # "")
        /\ EngineFailed => (result.status = "error")

C4_Witness ==
    /\ pc = "done" /\ op = "download"
    /\ errors # <<>>
    /\ errors[Len(errors)].class = "OSError"
    /\ result.status = "error"
    /\ result.message.phrase = "An unexpected error occurred"

\* C5: download() with a type that is neither 'video' nor 'audio' (ignoring
\* case) returns the error 'Invalid download type' for every URL and invokes
\* no engine operation.
C5_InvalidType ==
    (op = "download" /\ ~ValidType(download_type)) =>
        /\ calls = <<>>
        /\ (pc = "done") =>
              /\ result.status = "error"
              /\ result.message.phrase = "Invalid download type"

C5_Witness ==
    /\ pc = "done" /\ op = "download"
    /\ ~ValidType(download_type)
    /\ IsSome(detect_platform(url))
    /\ result.message.phrase = "Invalid download type"

\* C6: when metadata extraction raises or returns nothing, download() returns
\* the error 'Failed to extract video information' carrying the detected
\* platform and the requested download type, and the engine's download is not
\* invoked.
C6_ExtractionFailure ==
    (op = "download" /\ Count(calls, "extract_info") > 0 /\ ExtractedNothing(info)) =>
        /\ pc = "done"
        /\ result.status = "error"
        /\ result.message.phrase = "Failed to extract video information"
        /\ IsSome(result.platform)
        /\ result.platform = detect_platform(url)
        /\ result.download_type = Some(download_type)
        /\ Count(calls, "download") = 0

C6_Witness ==
    /\ pc = "done" /\ op = "download"
    /\ calls = <<"extract_info">>
    /\ IsNone(info)
    /\ result.message.phrase = "Failed to extract video information"

\* an attempt of the engine's download returned without an exception
EngineCompleted == Count(calls, "download") > Len(errors)

\* C7: download() returns a success only if the hooks recorded a file and the
\* resolved path existed when it was looked for; a completed download with no
\* recorded file gives 'Download completed but no files were found', a
\* resolved path that does not exist gives 'Downloaded file not found'.
C7_SuccessNeedsFile ==
    (pc = "done" /\ op = "download") =>
        /\ (result.status = "success") =>
              (downloaded_files # <<>> /\ path_exists = Some(TRUE))
        /\ (EngineCompleted /\ downloaded_files = <<>>) =>
              /\ result.status = "error"
              /\ result.message.phrase = "Download completed but no files were found"
        /\ (path_exists = Some(FALSE)) =>
              /\ result.status = "error"
              /\ result.message.phrase = "Downloaded file not found"

C7_Witness ==
    /\ pc = "done" /\ op = "download"
    /\ result.status = "success"
    /\ downloaded_files # <<>>
    /\ path_exists = Some(TRUE)

ErrorFields == {"status", "message", "file_path", "platform", "download_type"}

IsDiagnosticError(r) ==
    /\ r.status = "error"
    /\ DOMAIN r = ErrorFields
    /\ IsNone(r.file_path)

\* C8 as stated: every result of download() is a success with file_path,
\* platform, download_type, file_size and duration all populated, or an error
\* with only diagnostic fields and a null file_path.
C8_Original ==
    (pc = "done" /\ op = "download") =>
        IF result.status = "success"
        THEN /\ IsSome(result.file_path)
             /\ IsSome(result.platform)
             /\ IsSome(result.download_type)
             /\ IsSome(result.file_size)
             /\ IsSome(result.duration)
        ELSE IsDiagnosticError(result)

\* C8, amended: a success has file_path, platform and download_type populated,
\* file_size populated exactly when the file still existed when its size was
\* to be read, and duration populated exactly when the metadata carries a
\* duration; every other result is an error with only diagnostic fields and a
\* null file_path.
C8_SuccessShape ==
    (pc = "done" /\ op = "download") =>
        IF result.status = "success"
        THEN /\ IsSome(result.file_path)
             /\ IsSome(result.platform)
             /\ IsSome(result.download_type)
             /\ IsSome(result.file_size) <=> (size_exists = Some(TRUE))
             /\ IsSome(result.duration) <=> (Get(info).duration.tag = "num")
        ELSE IsDiagnosticError(result)

C8_Witness ==
    /\ pc = "done" /\ op = "download"
    /\ result.status = "success"
    /\ IsSome(result.file_path)
    /\ IsSome(result.file_size)
    /\ IsSome(result.duration)
    /\ Get(info).duration = NumDuration(0)

\* C9: every error result of download() carries a message and the requested
\* download type, and the detected platform whenever detection had succeeded
\* before the failure.
C9_ErrorDiagnostics ==
    (pc = "done" /\ op = "download" /\ result.status = "error") =>
        /\ result.message.phrase # ""
        /\ result.download_type = Some(download_type)
        /\ IsSome(platform) => (result.platform = platform)

\* the path download() resolves from the first recorded file
Resolved(reported, t, disk) ==
    IF t = AUDIO /\ Mp3Of(reported) \in disk /\ Mp3Of(reported) # reported
    THEN Mp3Of(reported)
    ELSE reported

C10_Step ==
    /\ (pc = "collect" /\ pc' = "ensure") =>
          (file_path' = Some(Resolved(downloaded_files[1], Get(dl_type), fs)))
    /\ (pc \in {"ensure", "size", "getsize", "assemble"}) =>
          (file_path' = file_path)
    /\ (pc = "assemble" /\ result'.status = "success") =>
          (result'.file_path = Some(abspath(Get(file_path))))

\* C10: for an audio download whose first recorded file is X.<ext>, the
\* result's file_path is X.mp3 if X.mp3 exists when looked for and is another
\* path, and the recorded path otherwise; for a video download the recorded
\* path is never replaced.
C10_Mp3Sibling == [][C10_Step]_vars

C10_Witness ==
    /\ pc = "done" /\ op = "download"
    /\ result.status = "success"
    /\ Get(dl_type) = AUDIO
    /\ downloaded_files[1] = Path("X", "webm")
    /\ result.file_path = Some(abspath(Path("X", "mp3")))

\* the platforms in the order of the detector's table
TableOrder == <<"YouTube", "Facebook", "Twitter/X", "Instagram", "TikTok",
                "Vimeo", "Twitch", "Dailymotion">>

\* C11: detect_platform lower-cases the URL and returns the first platform, in
\* the order YouTube, Facebook, Twitter/X, Instagram, TikTok, Vimeo, Twitch,
\* Dailymotion, with a pattern matching it, and None when no pattern of any
\* platform matches; is_supported_platform(url) is true exactly when
\* detect_platform(url) is not None.
C11_FirstPlatform ==
    /\ Len(PLATFORM_PATTERNS) = Len(TableOrder)
    /\ IsSome(ret.detect) =>
          LET u == Lower(arg)
              matching == {p \in 1..Len(TableOrder) : PlatformMatches(p, u)}
          IN  IF matching = {} THEN Get(ret.detect) = None
              ELSE \E p \in matching :
                      /\ \A q \in matching : p <= q
                      /\ PLATFORM_PATTERNS[p].platform = TableOrder[p]
                      /\ Get(ret.detect) = Some(TableOrder[p])
    /\ (IsSome(ret.detect) /\ IsSome(ret.supported)) =>
          (Get(ret.supported) <=> Get(ret.detect) # None)
    /\ (IsSome(ret.detect) /\ arg = URL_VIMEO_UPPER) => Get(ret.detect) = Some("Vimeo")
    /\ (IsSome(ret.detect) /\ arg = URL_EXAMPLE) => Get(ret.detect) = None

\* a URL of facebook.com whose path names youtube.com is YouTube's: the table's
\* order decides, not the place in the URL
C11_Witness ==
    /\ arg = HTTPS \o facebook_com \o <<"/">> \o youtube_com
    /\ ret.detect = Some(Some("YouTube"))
    /\ ret.supported = Some(TRUE)

\* the host of u is one of the allowlist's domains or a subdomain of one
HostInAllowlist(u) ==
    /\ SchemeLen(u) > 0
    /\ LET h == Lower(Host(u)) IN
       \E k \in 1..Len(supported_domains) :
           LET d == supported_domains[k] IN
           \/ h = d
           \/ /\ Len(h) > Len(d)
              /\ SubSeq(h, Len(h) - Len(d), Len(h)) = <<".">> \o d

\* C12: DownloadRequest validation rejects every URL whose host is not in the
\* allowlist of supported domains and accepts the URLs whose host is in it.
C12_HostAllowlist ==
    IsSome(ret.valid) => (Get(ret.valid) # None <=> HostInAllowlist(arg))

\* C13: every URL accepted by DownloadRequest validation is detected as a
\* supported platform by detect_platform, so download() of the validated URL
\* does not answer with the unsupported-platform error.
C13_AcceptedIsDetected ==
    (IsSome(ret.valid) /\ Get(ret.valid) # None) =>
        LET accepted == Get(Get(ret.valid)) IN
        /\ \E p \in 1..Len(TableOrder) : PlatformMatches(p, Lower(accepted))
        /\ (IsSome(ret.detect) /\ accepted = arg) => Get(ret.detect) # None

\* a URL whose host is outside the allowlist, accepted because its host holds
\* "x.com", and detected as Twitter/X
C13_Witness ==
    /\ arg = HTTPS \o <<"n","e","t","f","l","i","x",".","c","o","m","/","v">>
    /\ ret.valid = Some(Some(arg))
    /\ ret.detect = Some(Some("Twitter/X"))

\* Every result download() returns in Spec is one that the handlers of
\* SpecFront are answered with (an invariant of Spec).
DownloadResultsCover ==
    (pc = "done" /\ op = "download") =>
        result \in download_results(url, download_type, result.status = "success")

\* C14: POST /download answers a body failing validation with 422 without
\* invoking the orchestrator, an orchestrator result with status "error" with
\* 400, and a success result with 200 and the result as body.
C14_StatusCodes ==
    front.via = "POST /download" =>
        IF ~(/\ IsSome(DownloadRequest_url(front.url, front.normalise))
             /\ front.download_type \in DownloadType)
        THEN front.status = 422 /\ front.invoked = <<>>
        ELSE /\ front.invoked = <<"download">>
             /\ front.result.status \in {"error", "success"}
             /\ front.result.status = "error" => front.status = 400
             /\ front.result.status = "success" =>
                   (front.status = 200 /\ front.body = front.result)

C14_Witness ==
    /\ front.via = "POST /download"
    /\ front.url = URL_YOUTU_BE
    /\ front.status = 400
    /\ front.result.status = "error"
    /\ front.result.message.phrase = "Download failed"

TelegramDataFields ==
    {"file_url", "file_name", "file_size", "duration", "width", "height",
     "thumbnail", "mime_type", "title", "description"}

\* C15: on POST /download/telegram, whenever the download fails the response
\* has success = false and every data field null, even when the metadata lookup
\* before it succeeded.
C15_FailureAllNull ==
    (front.via = "POST /download/telegram" /\ front.result.status = "error") =>
        /\ front.body.success = FALSE
        /\ \A f \in TelegramDataFields : front.body[f] = None

C15_Witness ==
    /\ front.via = "POST /download/telegram"
    /\ front.result.status = "error"
    /\ front.info_result.status = "success"
    /\ IsSome(front.info_result.duration)
    /\ front.body.success = FALSE

\* C16: the CLI exits with status 1 and reports on standard error whenever the
\* orchestrator's result is not a success (or it was interrupted), whatever the
\* --info and --json flags; it exits with status 0 only on success.
C16_ExitStatus ==
    (front.via = "cli" /\ front.invoked # <<>>) =>
        /\ front.result.status # "success" =>
              (front.status = 1 /\ front.stderr # <<>>)
        /\ front.status = 0 => front.result.status = "success"

\* C18: calls of download(), get_video_info() and list_formats() that run at
\* the same time on the one shared VideoDownloader never change base_options
\* or download_dir, and the option dict, the hook list and the list of
\* produced files of a download belong to that call alone: its dict is not
\* base_options and holds its own profile and its own hooks, and every entry
\* of its list was reported by its own engine with its own format.
C18_RequestLocal ==
    /\ shared.dicts[BaseRef] = base_options
    /\ shared.download_dir = "downloads"
    /\ \A c \in Calls :
          /\ workers[c].pc \in {"engine", "collect", "done"} /\ workers[c].op = "download"
             => /\ workers[c].options = <<c, 1>>
                /\ shared.dicts[<<c, 1>>].format = _get_download_options(workers[c].t).format
                /\ shared.dicts[<<c, 1>>].progress_hooks = <<c>>
                /\ shared.dicts[<<c, 1>>].postprocessor_hooks = <<c>>
          /\ \A k \in 1..Len(workers[c].downloaded_files) :
                /\ workers[c].downloaded_files[k].by = c
                /\ workers[c].downloaded_files[k].format \in
                      {_get_download_options(workers[c].t).format,
                       fallback_options(NoOptions, workers[c].t).format}
          /\ workers[c].op \in {"get_video_info", "list_formats"}
             => /\ workers[c].downloaded_files = <<>>
                /\ shared.dicts[<<c, 1>>] = NoOptions

\* two downloads of different types have both reported a file, one of them
\* in its fallback attempt, while the other call is still in the engine
C18_Witness ==
    /\ workers[1].op = "download" /\ workers[2].op = "download"
    /\ workers[1].t = VIDEO /\ workers[2].t = AUDIO
    /\ workers[1].pc = "done" /\ workers[1].result.status = "success"
    /\ workers[2].pc = "engine" /\ workers[2].attempt = 2
    /\ workers[2].downloaded_files # <<>>

\* C17: GET /files and GET /download/{filename}, running while a download is
\* in flight, never answer with a server error and never list or serve a
\* file that is still being written.
C17_UnfinishedIsNotFound ==
    /\ srv.status # 500
    /\ \A k \in 1..Len(srv.files) : srv.files[k].state = "complete"

\* C19: _format_duration returns None for None; for d >= 0 seconds with
\* h = d div 3600, m = (d mod 3600) div 60, s = d mod 60 the result reads
\* h:m:s when h > 0 and m:s otherwise, every component in decimal digits and
\* padded with zeros to two digits; 65 gives "01:05", 3665 gives "01:01:05".
C19_DurationRendering ==
    ~IsNone(ret.duration) =>
       IF arg.duration.tag = "none" THEN IsNone(Get(ret.duration))
       ELSE LET d == arg.duration.val
                h == d \div 3600
                m == (d % 3600) \div 60
                sec == d % 60
                want == IF h > 0 THEN <<h, m, sec>> ELSE <<m, sec>>
                out == Get(ret.duration)
                parts == split(Get(out), ":")
            IN  /\ ~IsNone(out)
                /\ Len(parts) = Len(want)
                /\ \A k \in 1..Len(want) :
                      /\ int(parts[k]) = Some(want[k])
                      /\ Len(parts[k]) >= 2
                      /\ want[k] < 100 => Len(parts[k]) = 2
                /\ d = 65 => Get(out) = <<"0","1",":","0","5">>
                /\ d = 3665 => Get(out) = <<"0","1",":","0","1",":","0","5">>

\* 3665 seconds have been rendered with hours
C19_Witness ==
    /\ arg.duration = NumDuration(3665)
    /\ ret.duration = Some(Some(<<"0","1",":","0","1",":","0","5">>))

\* C20: _format_file_size returns None for None; for a byte count n the unit
\* is the k-th of B, KB, MB, GB, TB with k = min(4, divisions by 1024 needed
\* to get below 1024), and the number before it is n / 1024^k to within a
\* tenth, written with exactly one decimal; 1024 gives "1.0 KB", 1536 gives
\* "1.5 KB", 1048576 gives "1.0 MB".
C20_SizeRendering ==
    ~IsNone(ret.size) =>
       IF IsNone(arg.size_bytes) THEN IsNone(Get(ret.size))
       ELSE LET n == Get(arg.size_bytes)
                k == IF Len(n) - 1 < 4 THEN Len(n) - 1 ELSE 4
                unit == << <<"B">>, <<"K","B">>, <<"M","B">>, <<"G","B">>,
                           <<"T","B">> >>[k + 1]
                RECURSIVE Whole(_)
                Whole(j) == IF j = 0 THEN 0 ELSE 1024 * Whole(j - 1) + n[j]
                a == Whole(Len(n) - k)
                f2 == (IF k >= 1 THEN 1024 * n[Len(n) - k + 1] ELSE 0)
                      + (IF k >= 2 THEN n[Len(n) - k + 2] ELSE 0)
                lo == (10 * f2) \div (1024 * 1024)
                hi == (10 * f2 + 9) \div (1024 * 1024)
                out == Get(ret.size)
                parts == split(Get(out), " ")
                num == split(parts[1], ".")
            IN  /\ ~IsNone(out)
                /\ Len(parts) = 2
                /\ parts[2] = unit
                /\ Len(num) = 2
                /\ Len(num[2]) = 1
                /\ ~IsNone(int(num[1])) /\ ~IsNone(int(num[2]))
                /\ LET t == 10 * Get(int(num[1])) + Get(int(num[2]))
                   IN  10 * a + lo <= t /\ t <= 10 * a + hi + 1
                /\ n = <<1, 0>> => Get(out) = <<"1",".","0"," ","K","B">>
                /\ n = <<1, 512>> => Get(out) = <<"1",".","5"," ","K","B">>
                /\ n = <<1, 0, 0>> => Get(out) = <<"1",".","0"," ","M","B">>

\* 1024 TB have been rendered: the unit stays TB
C20_Witness ==
    /\ arg.size_bytes = Some(<<1, 0, 0, 0, 0, 0>>)
    /\ ret.size = Some(Some(<<"1","0","2","4",".","0"," ","T","B">>))

\* C21: POST /info without a URL in the body (missing or empty) is answered
\* 400 and get_video_info is not called; with a URL it is answered 400 with
\* the result as detail when get_video_info yields an error result, and 200
\* with the result as body when it yields a success.
C21_InfoStatusCodes ==
    front.via = "POST /info" =>
       IF front.url = <<>>
       THEN /\ front.status = 400
            /\ front.invoked = <<>>
            /\ front.body = [detail |-> [message |-> "URL is required"]]
       ELSE /\ front.invoked = <<"get_video_info">>
            /\ front.info_result.status \in {"error", "success"}
            /\ front.info_result.status = "error"
               => front.status = 400 /\ front.body = [detail |-> front.info_result]
            /\ front.info_result.status = "success"
               => front.status = 200 /\ front.body = front.info_result

\* a request without URL has been answered
C21_Witness ==
    /\ front.via = "POST /info"
    /\ front.url = <<>>
    /\ front.status = 400

\* the size value of a format, 0 when it has none: filesize or filesize_approx
SizeOf(fmt) ==
    IF fmt.filesize # <<>> /\ fmt.filesize[1] # None /\ fmt.filesize[1] # Some(0)
    THEN Get(fmt.filesize[1])
    ELSE IF fmt.filesize_approx # <<>> /\ fmt.filesize_approx[1] # None
    THEN Get(fmt.filesize_approx[1])
    ELSE 0
\* the positions of the formats with a size that have a video codec, and of
\* those that have none but an audio codec (a missing codec key reads 'none')
SizedVideo(formats) ==
    {k \in 1..Len(formats) :
        /\ SizeOf(formats[k]) # 0
        /\ formats[k].vcodec # <<>> /\ formats[k].vcodec[1] # Some("none")}
SizedAudio(formats) ==
    {k \in 1..Len(formats) :
        /\ SizeOf(formats[k]) # 0
        /\ ~(formats[k].vcodec # <<>> /\ formats[k].vcodec[1] # Some("none"))
        /\ formats[k].acodec # <<>> /\ formats[k].acodec[1] # Some("none")}
\* the positions of the video formats with a height
WithHeight(formats) ==
    {k \in 1..Len(formats) :
        /\ formats[k].vcodec # <<>> /\ formats[k].vcodec[1] # Some("none")
        /\ formats[k].height # <<>> /\ formats[k].height[1] # None
        /\ formats[k].height[1] # Some(0)}
\* the calls of get_video_info that have returned a success
Returned == {n \in {"first", "second"} : ~IsNone(ret[n]) /\ Get(ret[n]).status = "success"}

\* C22: two calls of get_video_info on one URL for which the engine returns
\* the same metadata return identical results.
C22_Deterministic ==
    ~IsNone(ret.first) /\ ~IsNone(ret.second) => ret.first = ret.second

\* both calls have returned for metadata with four distinct heights
C22_Witness ==
    /\ Returned = {"first", "second"}
    /\ Len(Get(ret.first).video_quality.available_qualities) = 4

\* the summary q of formats has as best_quality the video format of the
\* greatest height, the one at position Pick(ties) among those of that height,
\* and as available_qualities the distinct labels in descending numeric order
QualitySummary(q, formats, Pick(_)) ==
    LET W == WithHeight(formats)
        h(k) == Get(formats[k].height[1])
        ties == {k \in W : \A j \in W : h(j) <= h(k)}
        labels == q.available_qualities
        num(x) == Get(int(SubSeq(x, 1, Len(x) - 1)))
    IN  /\ IsNone(q.best_quality) <=> W = {}
        /\ W # {} =>
              /\ Get(q.best_quality).height = h(Pick(ties))
              /\ Get(q.best_quality).vcodec = formats[Pick(ties)].vcodec[1]
              /\ Get(q.best_quality).width =
                    get(formats[Pick(ties)].width, None)
        /\ \A i \in 1..Len(labels) :
              /\ labels[i][Len(labels[i])] = "p"
              /\ \E k \in W : num(labels[i]) = h(k)
              /\ i < Len(labels) => num(labels[i]) > num(labels[i + 1])
        /\ \A k \in W : \E i \in 1..Len(labels) : num(labels[i]) = h(k)
Earliest(S) == CHOOSE k \in S : \A j \in S : k <= j
Latest(S) == CHOOSE k \in S : \A j \in S : j <= k

\* C23 as stated: best_quality is the video format with the greatest height,
\* the later-encountered one among several of that height, and
\* available_qualities the distinct '{height}p' labels in descending order.
C23_LastMaxWins ==
    \A n \in Returned :
        QualitySummary(Get(ret[n]).video_quality, arg.formats, Latest)

\* C23, amended: best_quality is the video format with the greatest height,
\* the earliest-encountered one among several of that height (a later format
\* replaces the best only when it is strictly higher), and available_qualities
\* the distinct '{height}p' labels in descending numeric order.
C23_FirstMaxWins ==
    \A n \in Returned :
        QualitySummary(Get(ret[n]).video_quality, arg.formats, Earliest)

\* two formats 1080 high, the avc1 one first: it is the best quality
C23_Witness ==
    /\ Len(arg.formats) = 2
    /\ arg.formats[1].format_id = "v1" /\ arg.formats[2].format_id = "v2"
    /\ "first" \in Returned
    /\ Get(Get(ret.first).video_quality.best_quality).vcodec = Some("avc1")

\* opts holds the (at most) n largest of the formats at the positions S, in
\* descending size order
Largest(opts, formats, S, n) ==
    /\ Len(opts) = IF Cardinality(S) < n THEN Cardinality(S) ELSE n
    /\ \A i \in 1..Len(opts) :
          /\ \E k \in S : /\ opts[i].format_id = formats[k].format_id
                          /\ opts[i].filesize = SizeOf(formats[k])
          /\ \A j \in 1..Len(opts) : i < j =>
                /\ opts[i].format_id # opts[j].format_id
                /\ opts[i].filesize >= opts[j].filesize
    /\ \A k \in S :
          \/ \E i \in 1..Len(opts) : opts[i].format_id = formats[k].format_id
          \/ SizeOf(formats[k]) <= opts[Len(opts)].filesize

\* C24: of the formats with a size, those with a video codec other than 'none'
\* are the video formats and those with video codec 'none' and an audio codec
\* other than 'none' the audio formats; video_options are the (at most) 5
\* largest video formats and audio_options the (at most) 3 largest audio
\* formats, in descending size order; best_video and best_audio are among
\* them, so a format without size value is in none of the outputs.
C24_Classification ==
    \A n \in Returned :
        LET fs_ == Get(ret[n]).file_sizes
            V == SizedVideo(arg.formats)
            A == SizedAudio(arg.formats)
        IN  /\ Largest(fs_.video_options, arg.formats, V, 5)
            /\ Largest(fs_.audio_options, arg.formats, A, 3)
            /\ ~IsNone(fs_.best_video) =>
                  \E k \in V : Get(fs_.best_video).format_id = arg.formats[k].format_id
            /\ ~IsNone(fs_.best_audio) =>
                  \E k \in A : Get(fs_.best_audio).format_id = arg.formats[k].format_id

\* of seven video and four audio formats with a size, five and three are kept
C24_Witness ==
    /\ Len(arg.formats) = 15
    /\ "first" \in Returned
    /\ Len(Get(ret.first).file_sizes.video_options) = 5
    /\ Len(Get(ret.first).file_sizes.audio_options) = 3
    /\ Get(ret.first).file_sizes.video_options[1].format_id = "v4"

\* C25: in a success result of get_video_info, file_sizes.estimated_total is
\* None exactly when no video or audio format carries a size value, and otherwise the
\* formatted sum of the sizes of best_video and best_audio; a duration of 180
\* seconds is reported as '03:00' with the raw value 180.
C25_EstimatedTotal ==
    \A n \in Returned :
        LET r == Get(ret[n])
            sized == SizedVideo(arg.formats) \cup SizedAudio(arg.formats)
            bv == IF IsNone(r.file_sizes.best_video) THEN 0
                  ELSE Get(r.file_sizes.best_video).filesize
            ba == IF IsNone(r.file_sizes.best_audio) THEN 0
                  ELSE Get(r.file_sizes.best_audio).filesize
        IN  /\ IsNone(r.file_sizes.estimated_total) <=> sized = {}
            /\ sized # {} =>
                  r.file_sizes.estimated_total = _format_file_size(Some(Bytes(bv + ba)))
            /\ arg.duration = NumDuration(180) =>
                  /\ r.duration = Some(<<"0","3",":","0","0">>)
                  /\ r.duration_seconds = NumDuration(180)

\* C26: list_formats returns the descriptors of the first min(10, n) formats
\* of the engine's list, in its order; the resolution of each is the format's
\* own when it has one, else 'audio only' when its video codec is 'none', else
\* 'unknown'.
C26_Descriptors ==
    ~IsNone(ret.formats) =>
       LET out == Get(ret.formats)
           n == Len(arg.formats)
       IN  /\ Len(out) = IF n < 10 THEN n ELSE 10
           /\ \A k \in 1..Len(out) :
                 LET fmt == arg.formats[k] IN
                 /\ out[k].format_id = fmt.format_id
                 /\ out[k].resolution =
                       IF fmt.resolution # <<>> /\ fmt.resolution[1] # None
                       THEN fmt.resolution[1]
                       ELSE IF fmt.vcodec = <<Some("none")>> THEN Some("audio only")
                       ELSE Some("unknown")

\* C28: whenever a video format with a size exists, best_video is non-null,
\* has the largest size of the video formats and is the first entry of
\* video_options; likewise best_audio for the audio formats.
C28_BestIsLargest ==
    \A n \in Returned :
        LET fs_ == Get(ret[n]).file_sizes
            V == SizedVideo(arg.formats)
            A == SizedAudio(arg.formats)
        IN  /\ V # {} =>
                  /\ ~IsNone(fs_.best_video)
                  /\ \A k \in V : SizeOf(arg.formats[k]) <= Get(fs_.best_video).filesize
                  /\ Get(fs_.best_video) = fs_.video_options[1]
            /\ A # {} =>
                  /\ ~IsNone(fs_.best_audio)
                  /\ \A k \in A : SizeOf(arg.formats[k]) <= Get(fs_.best_audio).filesize
                  /\ Get(fs_.best_audio) = fs_.audio_options[1]

\* C27: when the primary attempt of a download fails and the fallback attempt
\* succeeds, the file reported in the result was reported by the hooks during
\* the fallback attempt, the one that ran with the fallback options - never
\* during the failed primary attempt.
C27_FallbackFile ==
    \A c \in Calls :
        /\ workers[c].pc = "done"
        /\ workers[c].op = "download"
        /\ workers[c].attempt = 2
        /\ workers[c].result.status = "success"
        => workers[c].result.file.format = shared.dicts[<<c, 2>>].format

\* C29: for every engine duration d >= 0, the seconds the Telegram endpoint
\* parses from the string _format_duration(d) are d again, for d = 0 and for
\* 100 hours and more too.
C29_DurationRoundTrip ==
    ~IsNone(ret.parsed) /\ arg.duration.tag = "num"
    => Get(ret.parsed) = Some(arg.duration.val)

\* 100 hours have been formatted and parsed back
C29_Witness ==
    /\ arg.duration = NumDuration(360000)
    /\ ret.duration = Some(Some(<<"1","0","0",":","0","0",":","0","0">>))
    /\ ret.parsed = Some(Some(360000))

\* C30: detect_platform returns a platform only for a URL whose host is one
\* of that platform's domains or a subdomain of one; a URL on another host
\* yields None whatever its path or query holds.
C30_HostDecides ==
    ~IsNone(ret.detect) /\ ~IsNone(Get(ret.detect)) =>
       LET domains(platform_) ==
               CASE platform_ = "YouTube" -> {youtube_com, youtu_be}
                 [] platform_ = "Facebook" -> {facebook_com, fb_watch}
                 [] platform_ = "Twitter/X" -> {twitter_com, x_com}
                 [] platform_ = "Instagram" -> {instagram_com}
                 [] platform_ = "TikTok" -> {tiktok_com}
                 [] platform_ = "Vimeo" -> {vimeo_com}
                 [] platform_ = "Twitch" -> {twitch_tv}
                 [] platform_ = "Dailymotion" -> {dailymotion_com}
           p == Get(Get(ret.detect))
           host == Lower(Host(arg))
           ends(h, d) == /\ Len(h) >= Len(d)
                         /\ SubSeq(h, Len(h) - Len(d) + 1, Len(h)) = d
                         /\ Len(h) > Len(d) => h[Len(h) - Len(d)] = "."
       IN  \E d \in domains(p) : ends(host, d)

====
